---- MODULE Spec2Model ----
(***************************************************************************)
(* Model of the multisig coordination core of hive-multisig-sdk            *)
(* (src/src/index.ts, revision with the `utils` / `wss` namespaces, and    *)
(* src/src/utils/hive.utils.ts).                                           *)
(*                                                                         *)
(* JavaScript values are represented as follows.                           *)
(*   - strings are TLA+ strings; the value `undefined` in a string         *)
(*     position is the sentinel Undefined, which is no account name;       *)
(*   - an operation is [tag, operand]; an operand is a tagged record       *)
(*     [type |-> "undefined" | "null" | "string" | "object", ...] so that  *)
(*     `!op[1]` and `typeof op[1]` can be computed as JavaScript does;     *)
(*   - the three results of validateInitiatorOverBroadcaster (true, false, *)
(*     undefined) are "true", "false" and Undefined.                       *)
(***************************************************************************)
EXTENDS Integers, Sequences, FiniteSets, TLC

\* ---------------------------------------------------------------- bounds
MaxOps == 3          \* longest operation list of an enumerated transaction
MaxRequests == 2     \* longest batch handed to utils.decodeTransaction
MaxSigners == 2      \* most signer entries of a signature request in its lifecycle
MaxWeight == 2       \* largest weight of a signer entry or of the initiator
MaxThreshold == 3    \* largest weight threshold of a signature request
MaxDuplicates == 1   \* most repeated deliveries of a signature already attached

\* ------------------------------------------------------- JavaScript values
Undefined == "<undefined>"

\* JavaScript truthiness of a string-or-undefined value
Truthy(v) == v # Undefined /\ v # ""

\* a || b
Or(a, b) == IF Truthy(a) THEN a ELSE b

JsUndefined == [type |-> "undefined"]
JsNull == [type |-> "null"]
JsString(s) == [type |-> "string", value |-> s]
JsObject(f) == [type |-> "object", fields |-> f]

\* !v for an operand value
Falsy(v) ==
  \/ v.type \in {"undefined", "null"}
  \/ (v.type = "string" /\ v.value = "")

\* typeof v  (typeof null is 'object')
TypeOf(v) == IF v.type = "null" THEN "object" ELSE v.type

\* o.name for an operand object o
Field(o, name) ==
  IF name \in DOMAIN o.fields THEN o.fields[name] ELSE Undefined

\* o.name?.[0] for an operand object o whose field `name` is an array
First(o, name) ==
  IF name \in DOMAIN o.fields
    THEN IF Len(o.fields[name]) > 0 THEN o.fields[name][1] ELSE Undefined
    ELSE Undefined

\* --------------------------------------------- getUsernameFromTransaction
\* the switch of getUsernameFromTransaction, for the kinds that read one field
ActingField ==
  [ account_create |-> "creator",
    account_create_with_delegation |-> "creator",
    account_update |-> "account",
    account_update2 |-> "account",
    account_witness_proxy |-> "account",
    account_witness_vote |-> "account",
    cancel_transfer_from_savings |-> "from",
    change_recovery_account |-> "account_to_recover",
    claim_account |-> "creator",
    claim_reward_balance |-> "account",
    collateralized_convert |-> "owner",
    comment |-> "author",
    comment_options |-> "author",
    convert |-> "owner",
    create_claimed_account |-> "creator",
    create_proposal |-> "creator",
    decline_voting_rights |-> "account",
    delegate_vesting_shares |-> "delegator",
    delete_comment |-> "author",
    escrow_approve |-> "who",
    escrow_dispute |-> "who",
    escrow_release |-> "who",
    escrow_transfer |-> "from",
    feed_publish |-> "publisher",
    limit_order_cancel |-> "owner",
    limit_order_create |-> "owner",
    limit_order_create2 |-> "owner",
    pow |-> "worker_account",
    recover_account |-> "account_to_recover",
    report_over_production |-> "reporter",
    request_account_recovery |-> "account_to_recover",
    reset_account |-> "account_to_reset",
    set_reset_account |-> "account",
    set_withdraw_vesting_route |-> "from_account",
    transfer |-> "from",
    transfer_from_savings |-> "from",
    transfer_to_savings |-> "from",
    transfer_to_vesting |-> "from",
    vote |-> "voter",
    withdraw_vesting |-> "account",
    witness_set_properties |-> "owner",
    witness_update |-> "owner",
    update_proposal |-> "creator",
    remove_proposal |-> "proposal_owner",
    update_proposal_votes |-> "voter",
    recurrent_transfer |-> "from" ]

\* the kinds that have a case in the switch
KnownKinds == DOMAIN ActingField \cup {"custom", "custom_binary", "custom_json"}

\* the guard with the test of the kind tag left out
Malformed_NoTagCheck(op) ==
  \/ Falsy(op.operand)
  \/ TypeOf(op.operand) # "object"

\* the guard at the head of the loop body: the operation is badly formed
Malformed(op) ==
  \/ ~Truthy(op.tag)
  \/ Falsy(op.operand)
  \/ TypeOf(op.operand) # "object"

\* the switch reading the posting candidates before required_auths
NewUsername_PostingFirst(op) ==
  LET o == op.operand IN
  IF op.tag \in DOMAIN ActingField THEN Field(o, ActingField[op.tag])
  ELSE IF op.tag = "custom" THEN First(o, "required_auths")
  ELSE IF op.tag = "custom_binary"
    THEN Or(Or(Or(First(o, "required_posting_auths"),
                  First(o, "required_auths")),
               First(o, "required_active_auths")),
            First(o, "required_owner_auths"))
  ELSE IF op.tag = "custom_json"
    THEN Or(First(o, "required_posting_auths"), First(o, "required_auths"))
  ELSE Undefined

\* the value the switch leaves in newUsername (no default case: an
\* unrecognised kind leaves it undefined)
NewUsername(op) ==
  LET o == op.operand IN
  IF op.tag \in DOMAIN ActingField THEN Field(o, ActingField[op.tag])
  ELSE IF op.tag = "custom" THEN First(o, "required_auths")
  ELSE IF op.tag = "custom_binary"
    THEN Or(Or(Or(First(o, "required_auths"),
                  First(o, "required_posting_auths")),
               First(o, "required_active_auths")),
            First(o, "required_owner_auths"))
  ELSE IF op.tag = "custom_json"
    THEN Or(First(o, "required_auths"), First(o, "required_posting_auths"))
  ELSE Undefined

\* the abort test with the comparison inverted (=== for !==)
Disagree_SameAborts(username, newUsername) ==
  Truthy(username) /\ username = newUsername

\* the abort test without the test that the accumulator is set
Disagree_UnsetAborts(username, newUsername) == username # newUsername

\* the test that aborts the loop: the accumulator is set and differs
Disagree(username, newUsername) == Truthy(username) /\ username # newUsername

\* the for loop over tx.operations, from operation i with accumulator username
RECURSIVE ReduceUsername(_, _, _)
ReduceUsername(ops, i, username) ==
  IF i > Len(ops) THEN username
  ELSE IF Malformed(ops[i]) THEN Undefined
  ELSE IF Disagree(username, NewUsername(ops[i])) THEN Undefined
  ELSE ReduceUsername(ops, i + 1, NewUsername(ops[i]))

\* the early return handing back an empty string
getUsernameFromTransaction_EmptyString(tx) ==
  IF ~tx.hasOperations \/ Len(tx.operations) = 0 THEN ""
  ELSE ReduceUsername(tx.operations, 1, Undefined)

\* tx is [hasOperations |-> BOOLEAN, operations |-> sequence of operations]
getUsernameFromTransaction(tx) ==
  IF ~tx.hasOperations \/ Len(tx.operations) = 0 THEN Undefined
  ELSE ReduceUsername(tx.operations, 1, Undefined)

\* ------------------------------------------------------------ ledger state
\* account names and key classes the enumerated inputs use
Names == {"hi", "ha"}
KeyTypes == {"active", "posting", "memo"}

Other(a) == IF a = "hi" THEN "ha" ELSE "hi"
Key(a) == "STM" \o a
Keys == {Key(a) : a \in Names}

\* an authority: weight threshold, account principals, key principals
Authority(t, accs, keys) ==
  [weight_threshold |-> t, account_auths |-> accs, key_auths |-> keys]

OwnAuth(a) == Authority(1, <<>>, << <<Key(a), 1>> >>)
SharedAuth(a, w) == Authority(w + 1, <<>>, << <<Key(a), 1>>, <<Key(Other(a)), w>> >>)
DelegatedAuth(a, w) == Authority(1, << <<Other(a), w>> >>, << <<Key(a), 1>> >>)
NoAuth == Authority(1, <<>>, <<>>)

\* what the ledger can hold for account a
AccountProfiles(a) ==
  { [exists |-> FALSE, active |-> NoAuth, posting |-> NoAuth],
    [exists |-> TRUE, active |-> OwnAuth(a), posting |-> OwnAuth(a)],
    [exists |-> TRUE, active |-> SharedAuth(a, 1), posting |-> SharedAuth(a, 0)],
    [exists |-> TRUE, active |-> DelegatedAuth(a, 0), posting |-> DelegatedAuth(a, 1)] }

Ledgers == {l \in [Names -> UNION {AccountProfiles(a) : a \in Names}] :
              \A a \in Names : l[a] \in AccountProfiles(a)}

\* --------------------------------------------------------- hive.utils.ts
\* getAccount: the first element of getAccounts([username]), absent when the
\* ledger has no such account
AccountExists(L, username) == username \in DOMAIN L /\ L[username].exists

\* getPublicKeys: [defined |-> FALSE] is the result undefined
NoPublicKeys == [defined |-> FALSE, keys |-> <<>>]

KeysOf(auth) == [n \in 1..Len(auth.key_auths) |-> auth.key_auths[n][1]]

getPublicKeys(L, username, keyType) ==
  IF ~AccountExists(L, username) THEN NoPublicKeys
  ELSE IF keyType = "active"
    THEN [defined |-> TRUE, keys |-> KeysOf(L[username].active)]
  ELSE IF keyType = "posting"
    THEN [defined |-> TRUE, keys |-> KeysOf(L[username].posting)]
  ELSE NoPublicKeys

\* the loop going one level further: the keys of the delegate's first
\* account principal are returned as well
RECURSIVE ExpandAccountAuths_TwoLevels(_, _, _, _)
ExpandAccountAuths_TwoLevels(L, auths, n, method) ==
  IF n > Len(auths) THEN <<>>
  ELSE LET pk == getPublicKeys(L, auths[n][1], method)
           own == IF pk.defined
                    THEN [m \in 1..Len(pk.keys) |-> <<pk.keys[m], auths[n][2]>>]
                    ELSE <<>>
           inner == IF ~AccountExists(L, auths[n][1]) THEN <<>>
                    ELSE IF method = "active"
                      THEN L[auths[n][1]].active.account_auths
                      ELSE L[auths[n][1]].posting.account_auths
           deep == IF inner = <<>> THEN NoPublicKeys
                   ELSE getPublicKeys(L, inner[1][1], method)
           deeper == IF deep.defined
                       THEN [m \in 1..Len(deep.keys) |->
                               <<deep.keys[m], auths[n][2]>>]
                       ELSE <<>>
       IN own \o deeper \o ExpandAccountAuths_TwoLevels(L, auths, n + 1, method)

\* the first loop of getPotentialSigners, from account principal n
RECURSIVE ExpandAccountAuths(_, _, _, _)
ExpandAccountAuths(L, auths, n, method) ==
  IF n > Len(auths) THEN <<>>
  ELSE LET pk == getPublicKeys(L, auths[n][1], method)
           own == IF pk.defined
                    THEN [m \in 1..Len(pk.keys) |-> <<pk.keys[m], auths[n][2]>>]
                    ELSE <<>>
       IN own \o ExpandAccountAuths(L, auths, n + 1, method)

\* the authority getPotentialSigners selects: active for "active", posting
\* for every other method
SelectAuthority(L, username, method) ==
  IF method = "active" THEN L[username].active ELSE L[username].posting

getPotentialSigners(L, username, method) ==
  IF ~AccountExists(L, username) THEN <<>>
  ELSE LET authority == SelectAuthority(L, username, method)
       IN ExpandAccountAuths(L, authority.account_auths, 1, method)
            \o authority.key_auths

\* getThreshold: [defined |-> FALSE] is the result undefined
NoThreshold == [defined |-> FALSE, value |-> 0]

getThreshold(L, username, keyType) ==
  IF ~AccountExists(L, username) THEN NoThreshold
  ELSE IF keyType = "active"
    THEN [defined |-> TRUE, value |-> L[username].active.weight_threshold]
  ELSE IF keyType = "posting"
    THEN [defined |-> TRUE, value |-> L[username].posting.weight_threshold]
  ELSE NoThreshold

\* getAuthorityWeightOverUser: [defined |-> FALSE] is the result undefined
NoWeight == [defined |-> FALSE, value |-> 0]

\* authority.toString().startsWith('STM')
StartsWithSTM(authority) ==
  Len(authority) >= Len("STM") /\ SubSeq(authority, 1, Len("STM")) = "STM"

\* for (const [u, w] of auths) if (authority === u) return w
RECURSIVE FirstWeight(_, _, _)
FirstWeight(auths, authority, n) ==
  IF n > Len(auths) THEN NoWeight
  ELSE IF authority = auths[n][1]
    THEN [defined |-> TRUE, value |-> auths[n][2]]
  ELSE FirstWeight(auths, authority, n + 1)

\* the body of one case of the switch
CaseWeight(auth, authority) ==
  IF StartsWithSTM(authority)
    THEN FirstWeight(auth.key_auths, authority, 1)
    ELSE FirstWeight(auth.account_auths, authority, 1)

\* case active has no break or return at its end: when its loops return
\* nothing, control falls through into case posting
getAuthorityWeightOverUser(L, authority, username, keyType) ==
  IF ~AccountExists(L, username) THEN NoWeight
  ELSE IF keyType = "active"
    THEN LET w == CaseWeight(L[username].active, authority)
         IN IF w.defined THEN w
            ELSE CaseWeight(L[username].posting, authority)
  ELSE IF keyType = "posting"
    THEN CaseWeight(L[username].posting, authority)
  ELSE NoWeight

\* ------------------------------------- validateInitiatorOverBroadcaster
\* the weight test off by one (>= for >)
KeyHasWeight_ZeroCounts(key, entry) == key = entry[1] /\ entry[2] >= 0

\* the test inside the nested loops
KeyHasWeight(key, entry) == key = entry[1] /\ entry[2] > 0

\* the value returned when the broadcaster cannot be extracted
NoBroadcasterResult == Undefined

validateInitiatorOverBroadcaster(L, initiator, keyType, transaction) ==
  LET txUsername == getUsernameFromTransaction(transaction) IN
  IF ~Truthy(txUsername) THEN NoBroadcasterResult
  ELSE LET initiatorPublicKeys == getPublicKeys(L, initiator, keyType)
           userAuthorities == getPotentialSigners(L, txUsername, keyType)
       IN IF ~initiatorPublicKeys.defined THEN Undefined
          ELSE IF \E a \in 1..Len(initiatorPublicKeys.keys) :
                    \E b \in 1..Len(userAuthorities) :
                       KeyHasWeight(initiatorPublicKeys.keys[a], userAuthorities[b])
            THEN "true"
            ELSE "false"

\* ------------------------------------------------------ enumerated inputs
Op(tag, operand) == [tag |-> tag, operand |-> operand]

Transfer(u) == Op("transfer", JsObject([from |-> u, to |-> "ho"]))
Vote(u) == Op("vote", JsObject([voter |-> u, author |-> "ho"]))
Custom(ra) == Op("custom", JsObject([required_auths |-> ra, id |-> "0"]))
CustomJson(ra, rpa) ==
  Op("custom_json",
     JsObject([required_auths |-> ra, required_posting_auths |-> rpa]))
CustomBinary(ra, rpa, raa, roa) ==
  Op("custom_binary",
     JsObject([required_auths |-> ra, required_posting_auths |-> rpa,
               required_active_auths |-> raa, required_owner_auths |-> roa]))

\* operations with a kind tag the switch does not know
UnknownKindOps == {Op("foo", JsObject([from |-> u, to |-> "ho"])) : u \in Names}

\* operations the head-of-loop guard rejects
MalformedOps ==
  { Op(Undefined, JsObject([from |-> "hi", to |-> "ho"])),
    Op("", JsObject([from |-> "hi", to |-> "ho"])),
    Op("transfer", JsUndefined),
    Op("transfer", JsNull),
    Op("transfer", JsString("hi")) }

\* well-formed operations of a known kind that name no acting account
UnresolvedOps ==
  { Custom(<<>>), CustomJson(<<>>, <<>>),
    Op("transfer", JsObject([to |-> "ho", memo |-> "m"])),
    Transfer("") }

ResolvedOps ==
  UNION { { Transfer(u), Vote(u), CustomJson(<<>>, <<u>>),
            CustomBinary(<<>>, <<>>, <<u>>, <<>>) } : u \in Names }

SampleOps == ResolvedOps \cup UnresolvedOps \cup UnknownKindOps \cup MalformedOps

SeqsUpTo(S, n) == UNION {[1..m -> S] : m \in 0..n}

Tx(ops) == [hasOperations |-> TRUE, operations |-> ops]
TxNoOperations == [hasOperations |-> FALSE, operations |-> <<>>]

\* the transactions getUsernameFromTransaction is applied to
Txs == {Tx(ops) : ops \in SeqsUpTo(SampleOps, MaxOps)} \cup {TxNoOperations}

\* custom operations naming accounts in several of their authority lists,
\* and transfers to combine them with
CustomSampleOps ==
  UNION { { CustomJson(<<u>>, <<Other(u)>>), CustomJson(<<>>, <<u>>),
            CustomBinary(<<u>>, <<Other(u)>>, <<>>, <<>>),
            CustomBinary(<<>>, <<u>>, <<Other(u)>>, <<>>),
            CustomBinary(<<>>, <<>>, <<u>>, <<Other(u)>>),
            CustomBinary(<<>>, <<>>, <<>>, <<u>>),
            Transfer(u) } : u \in Names }
    \cup {CustomJson(<<>>, <<>>)}
CustomTxs == {Tx(ops) : ops \in SeqsUpTo(CustomSampleOps, MaxOps)}

\* the transactions that travel inside signature requests
TxHi == Tx(<<Transfer("hi"), Vote("hi")>>)
TxHa == Tx(<<Transfer("ha")>>)
TxSplit == Tx(<<Transfer("hi"), Vote("ha")>>)
TxLead == Tx(<<Custom(<<>>), Transfer("hi")>>)
TxUnknown == Tx(<<Op("foo", JsObject([from |-> "hi", to |-> "ho"]))>>)
PayloadTxs == {TxHi, TxHa, TxSplit, TxLead, TxUnknown, Tx(<<>>), TxNoOperations}

\* ------------------------------------------------- messages and provider
\* null as JSON.stringify writes it in the place of a kind tag
Null == "<null>"

\* a JSON text that keeps the first operation alone
JsonStringify_Truncated(tx) ==
  [tx EXCEPT !.operations =
     IF Len(tx.operations) > 0 THEN <<tx.operations[1]>> ELSE <<>>]

\* JSON.stringify(tx), as the value the text stands for: an array element
\* holding undefined is written as null, everything else as it is
JsonStringify(tx) ==
  [tx EXCEPT !.operations =
     [n \in 1..Len(tx.operations) |->
        Op(IF tx.operations[n].tag = Undefined THEN Null
             ELSE tx.operations[n].tag,
           IF tx.operations[n].operand.type = "undefined" THEN JsNull
             ELSE tx.operations[n].operand)]]

\* the message `#${JSON.stringify(tx)}`: a leading '#' and a JSON text
Plain(tx) == [hash |-> TRUE, json |-> [valid |-> TRUE, value |-> JsonStringify(tx)]]
\* a message whose text is not JSON
GarbagePlain == [hash |-> TRUE, json |-> [valid |-> FALSE, value |-> TxNoOperations]]

\* jsonString.replace('#', ''): drops the first '#', which is the leading one
\* (the enumerated JSON texts contain no '#')
ReplaceHash(s) == [s EXCEPT !.hash = FALSE]

\* JSON.parse: throws on a text that is not JSON
JsonParse(s) ==
  IF s.hash \/ ~s.json.valid
    THEN [threw |-> TRUE, value |-> TxNoOperations]
    ELSE [threw |-> FALSE, value |-> s.json.value]

\* a ciphertext: the public key it was encrypted to and what it holds
Encrypted(key, plain) == [to |-> key, plain |-> plain]

\* keychain.decode: the provider may throw, answer success:false, or, when
\* the message was encrypted to the user's key, answer with the plaintext
KeychainDecode(username, message) ==
  { [threw |-> TRUE, success |-> FALSE, result |-> GarbagePlain],
    [threw |-> FALSE, success |-> FALSE, result |-> GarbagePlain] }
  \cup (IF message.to = Key(username)
          THEN {[threw |-> FALSE, success |-> TRUE, result |-> message.plain]}
          ELSE {})

Signer(id, key, plain) ==
  [id |-> id, publicKey |-> key, encryptedTransaction |-> Encrypted(key, plain),
   weight |-> 1]

SignatureRequest(id, keyType, initiator, signers) ==
  [id |-> id, keyType |-> keyType, initiator |-> initiator, signers |-> signers]

SampleRequests ==
  { SignatureRequest(1, "posting", "ha",
       <<Signer(1, Key("hi"), Plain(TxHi)), Signer(2, Key("ha"), Plain(TxHi))>>),
    SignatureRequest(2, "active", "ha",
       <<Signer(3, Key("hi"), Plain(TxSplit)), Signer(4, Key("hi"), Plain(TxHi))>>),
    SignatureRequest(3, "posting", "hi",
       <<Signer(5, Key("hi"), GarbagePlain), Signer(6, Key("ha"), Plain(TxHa))>>) }

\* the arguments of utils.decodeTransaction
DecodeInputs ==
  {[signatureRequest |-> b, username |-> u] :
     b \in SeqsUpTo(SampleRequests, MaxRequests), u \in Names}

\* ------------------------------------------------------------------ state
VARIABLES
  ledger,            \* account state on the ledger, read through getAccount
  call,              \* the API call in progress or last completed
  pc,                \* position of utils.decodeTransaction
  data,              \* its argument
  k,                 \* index of the current request (1-based)
  i,                 \* index of the current signer entry (1-based)
  signerPublicKeys,  \* the decoding party's keys for the current request
  decodeCalls,       \* the requests made to the keychain by decodeTransaction
  transactions,      \* the accepted transactions so far
  outcome,           \* the promise: pending, resolved or rejected
  encode,            \* utils.encodeTransaction: position, argument, locals
                     \* and promise of the call
  keychainCalls,     \* the requests made to the keychain by encodeTransaction
  request,           \* a signature request as the coordinator holds it
  sent,              \* the SIGN_TRANSACTION messages emitted on the socket
  readyTransitions,  \* how often the request turned ReadyToBroadcast
  now,               \* the clock the coordinator reads when a request is touched
  duplicates,        \* deliveries of a signature to an entry that held it already
  broadcast,         \* wss.broadcastTransaction: position, ledger answer, promise
  notified,          \* the NOTIFY_TRANSACTION_BROADCASTED messages emitted
  instance,          \* HiveMultisigSDK.instance, the static field
  connections,       \* the socket addresses io.connect was called with
  returned,          \* the last call of getInstance: arguments and result
  subscribeCall,     \* wss.subscribe: position, argument, promise
  signCall,          \* wss.signTransaction: position, argument, promise
  emitted            \* the messages emitted on the socket by these two calls

vars == <<ledger, call, pc, data, k, i, signerPublicKeys, decodeCalls, transactions,
          outcome, encode, keychainCalls, request, sent, readyTransitions,
          now, duplicates, broadcast, notified, instance, connections,
          returned, subscribeCall, signCall, emitted>>

clientVars == <<instance, connections, returned, subscribeCall, signCall,
                emitted>>

lifecycleVars == <<request, sent, readyTransitions, now, duplicates, broadcast,
                   notified>>

decodeVars == <<pc, data, k, i, signerPublicKeys, decodeCalls, transactions,
               outcome>>

encodeVars == <<encode, keychainCalls>>

NoCall == [name |-> "none"]
Pending == [status |-> "pending", reason |-> "", value |-> <<>>]
NoData == [signatureRequest |-> <<>>, username |-> ""]

\* a ciphertext position holding undefined
NoCiphertext == [to |-> Undefined, plain |-> GarbagePlain]

\* the answer of a keychain request that has not been made
NoAnswer == [threw |-> FALSE, success |-> FALSE]

\* the arguments of utils.encodeTransaction
Initiators ==
  {[username |-> n, publicKey |-> key, weight |-> 1] : n \in Names, key \in Keys}
EncodeTxs == {TxHi, TxHa, TxSplit, TxNoOperations}
EncodeInputs ==
  {[transaction |-> tx, method |-> m, initiator |-> ini, expirationDate |-> 1] :
     tx \in EncodeTxs, m \in KeyTypes, ini \in Initiators}

NoEncodeData ==
  [transaction |-> TxNoOperations, method |-> "posting",
   initiator |-> [username |-> "", publicKey |-> "", weight |-> 0],
   expirationDate |-> 0]

\* no signature attached to a signer entry
NoSignature == [by |-> Undefined, method |-> Undefined]

\* a signer entry as the coordinator holds it
SignerEntry(id, weight) ==
  [id |-> id, weight |-> weight, signature |-> NoSignature, refused |-> FALSE]

\* a signature request as the coordinator holds it, with its lifecycle state
LifecycleRequest(threshold, initiatorWeight, weights) ==
  [id |-> 1, threshold |-> threshold, keyType |-> "active",
   initiatorWeight |-> initiatorWeight,
   expirationDate |-> 0,
   signers |-> [n \in 1..Len(weights) |-> SignerEntry(n, weights[n])],
   state |-> "Created"]

\* wss.broadcastTransaction before it is called
NoBroadcast ==
  [pc |-> "idle", transaction |-> [signatureRequestId |-> 0],
   confirmed |-> FALSE, result |-> [id |-> Undefined], emit |-> FALSE,
   outcome |-> Pending]

NoRequest == LifecycleRequest(1, 1, <<>>)

\* utils.encodeTransaction before it is called
NoEncode ==
  [pc |-> "idle", data |-> NoEncodeData, signature |-> NoAnswer,
   threshold |-> NoThreshold, potentialSigners |-> <<>>,
   encodedTransaction |-> NoAnswer, outcome |-> Pending]

\* the options the constructor falls back to
DefaultOptions ==
  [apiAddress |-> "https://api.multisig.hive-keychain.com",
   socketAddress |-> "wss://ws.multisig.hive-keychain.com",
   clientAddress |-> "https://api.deathwing.me"]

\* the optional argument options left out
NoOptions == [defined |-> FALSE, value |-> DefaultOptions]

\* the static field before the first call of getInstance
NoInstance == [created |-> FALSE, window |-> "", options |-> DefaultOptions]

\* no call of getInstance made yet
NoReturn == [called |-> FALSE, window |-> "", options |-> NoOptions,
             result |-> NoInstance]

\* wss.subscribe before it is called; argument is the value the caller
\* passed, data the variable the function reassigns
NoSubscribe ==
  [pc |-> "idle",
   data |-> [username |-> "", keyType |-> "posting", message |-> Undefined,
             publicKey |-> Undefined],
   argument |-> [username |-> "", keyType |-> "posting", message |-> Undefined,
                 publicKey |-> Undefined],
   signBufferCalls |-> 0,
   signBuffer |-> [threw |-> FALSE, success |-> FALSE, result |-> "",
                   publicKey |-> Undefined],
   outcome |-> Pending]

\* wss.signTransaction before it is called
NoSign ==
  [pc |-> "idle",
   data |-> [decodedTransaction |-> TxNoOperations, signerId |-> 0,
             signatureRequestId |-> 0, username |-> "", method |-> "posting"],
   signature |-> [threw |-> FALSE, success |-> FALSE, result |-> TxNoOperations],
   outcome |-> Pending]

\* reject(reason) and resolve(value) on a promise: only the first call settles
Rejected(o, reason) ==
  IF o.status = "pending"
    THEN [status |-> "rejected", reason |-> reason, value |-> <<>>]
    ELSE o
Resolved(o, value) ==
  IF o.status = "pending"
    THEN [status |-> "resolved", reason |-> "", value |-> value]
    ELSE o

Init ==
  /\ ledger \in Ledgers
  /\ call = NoCall
  /\ pc = "idle"
  /\ data = NoData
  /\ k = 1
  /\ i = 1
  /\ signerPublicKeys = NoPublicKeys
  /\ decodeCalls = <<>>
  /\ transactions = <<>>
  /\ outcome = Pending
  /\ encode = NoEncode
  /\ keychainCalls = <<>>
  /\ request = NoRequest
  /\ sent = {}
  /\ readyTransitions = 0
  /\ now = 0
  /\ duplicates = 0
  /\ broadcast = NoBroadcast
  /\ notified = {}
  /\ instance = NoInstance
  /\ connections = <<>>
  /\ returned = NoReturn
  /\ subscribeCall = NoSubscribe
  /\ signCall = NoSign
  /\ emitted = <<>>

\* the ledger changes under the program (what getAccount returns next);
\* once the call has settled nothing reads the ledger again
LedgerUpdate(a, p) ==
  /\ pc # "done"
  /\ encode.pc # "done"
  /\ p # ledger[a]
  /\ ledger' = [ledger EXCEPT ![a] = p]
  /\ UNCHANGED <<clientVars, lifecycleVars, encodeVars, call, decodeVars>>

\* a call of HiveMultisigSDK.getUsernameFromTransaction
CallGetUsername(tx) ==
  /\ pc = "idle"
  /\ call = NoCall
  /\ call' = [name |-> "getUsernameFromTransaction", tx |-> tx,
              result |-> getUsernameFromTransaction(tx)]
  /\ UNCHANGED <<clientVars, lifecycleVars, encodeVars, ledger, decodeVars>>

\* a call of HiveMultisigSDK.validateInitiatorOverBroadcaster
CallValidate(initiator, keyType, tx) ==
  /\ pc = "idle"
  /\ call = NoCall
  /\ call' = [name |-> "validateInitiatorOverBroadcaster",
              initiator |-> initiator, keyType |-> keyType, tx |-> tx,
              ledger |-> ledger,
              result |-> validateInitiatorOverBroadcaster(ledger, initiator,
                                                          keyType, tx)]
  /\ UNCHANGED <<clientVars, lifecycleVars, encodeVars, ledger, decodeVars>>

\* utils.getSigners without the test of the list's length
getSigners_NoCheck(L, username, keyType, throws) ==
  IF throws
    THEN Rejected(Pending, "error occured during getSigners: ")
    ELSE Resolved(Pending, getPotentialSigners(L, username, keyType))

\* utils.getSigners: the promise it returns; throws is getPotentialSigners
\* throwing (the ledger client failed). reject does not leave the function:
\* the resolve after it finds the promise settled
getSigners(L, username, keyType, throws) ==
  IF throws
    THEN Rejected(Pending, "error occured during getSigners: ")
    ELSE LET signers == getPotentialSigners(L, username, keyType)
             tested == IF Len(signers) = 0
                         THEN Rejected(Pending, username \o " not found")
                         ELSE Pending
         IN Resolved(tested, signers)

\* a call of HiveUtils.getPotentialSigners
CallGetPotentialSigners(username, method) ==
  /\ call = NoCall
  /\ call' = [name |-> "getPotentialSigners", username |-> username,
              method |-> method, ledger |-> ledger,
              result |-> getPotentialSigners(ledger, username, method)]
  /\ UNCHANGED <<clientVars, lifecycleVars, encodeVars, ledger, decodeVars>>

\* a call of HiveUtils.getAuthorityWeightOverUser
CallGetAuthorityWeightOverUser(authority, username, keyType) ==
  /\ call = NoCall
  /\ call' = [name |-> "getAuthorityWeightOverUser", authority |-> authority,
              username |-> username, keyType |-> keyType, ledger |-> ledger,
              result |-> getAuthorityWeightOverUser(ledger, authority,
                                                    username, keyType)]
  /\ UNCHANGED <<clientVars, lifecycleVars, encodeVars, ledger, decodeVars>>

\* a call of utils.getSigners
CallGetSigners(username, keyType, throws) ==
  /\ call = NoCall
  /\ call' = [name |-> "getSigners", username |-> username,
              keyType |-> keyType, throws |-> throws, ledger |-> ledger,
              result |-> getSigners(ledger, username, keyType, throws)]
  /\ UNCHANGED <<clientVars, lifecycleVars, encodeVars, ledger, decodeVars>>

\* ------------------------------------------------ utils.decodeTransaction
CurrentRequest == data.signatureRequest[k]
CurrentSigner == CurrentRequest.signers[i]

\* signerPublicKeys?.includes(key) taken to hold for every key
Includes_Always(pk, key) == TRUE

\* signerPublicKeys?.includes(key)
Includes(pk, key) == pk.defined /\ \E n \in 1..Len(pk.keys) : pk.keys[n] = key

\* the ITransaction pushed for an accepted entry
DecodedTransaction(signRequest, signer, decodedTx, username) ==
  [signer |-> signer, signatureRequestId |-> signRequest.id,
   transaction |-> decodedTx, method |-> signRequest.keyType,
   username |-> username]

\* the test written as `validAuth !== false`
ValidAuth_NotFalse(result) == result # "false"

\* the test `if (validAuth)` on the validator's result
ValidAuth(result) == result = "true"

\* the inner try block without the validation of the initiator
DecodeEntry_NoValidation(L, signRequest, signer, username, r) ==
  IF r.threw
    THEN [accepted |-> FALSE, tx |-> TxNoOperations,
          reason |-> "An error occured during decodeTransaction: "]
  ELSE IF ~r.success
    THEN [accepted |-> FALSE, tx |-> TxNoOperations, reason |-> "Decoding failed."]
  ELSE LET parsed == JsonParse(ReplaceHash(r.result)) IN
    IF parsed.threw
      THEN [accepted |-> FALSE, tx |-> TxNoOperations,
            reason |-> "An error occured during decodeTransaction: "]
      ELSE [accepted |-> TRUE, tx |-> parsed.value, reason |-> ""]

\* what the body of the inner try block does with one provider answer r:
\* either the entry is accepted with a transaction, or reject() is called
DecodeEntry(L, signRequest, signer, username, r) ==
  IF r.threw
    THEN [accepted |-> FALSE, tx |-> TxNoOperations,
          reason |-> "An error occured during decodeTransaction: "]
  ELSE IF ~r.success
    THEN [accepted |-> FALSE, tx |-> TxNoOperations, reason |-> "Decoding failed."]
  ELSE LET parsed == JsonParse(ReplaceHash(r.result)) IN
    IF parsed.threw
      THEN [accepted |-> FALSE, tx |-> TxNoOperations,
            reason |-> "An error occured during decodeTransaction: "]
    ELSE IF ValidAuth(validateInitiatorOverBroadcaster(L, signRequest.initiator,
                                                       signRequest.keyType,
                                                       parsed.value))
      THEN [accepted |-> TRUE, tx |-> parsed.value, reason |-> ""]
      ELSE [accepted |-> FALSE, tx |-> TxNoOperations,
            reason |-> "Invalid initiator."]

\* the request as the keychain sees it
DecodeRequest(d, signRequest, signer) ==
  [name |-> "decode", username |-> d.username,
   message |-> signer.encryptedTransaction, method |-> signRequest.keyType]

\* entry of the call: the empty-batch test, then the try block begins
decodeTransaction(d) ==
  /\ pc = "idle"
  /\ call' = [name |-> "decodeTransaction"]
  /\ data' = d
  /\ pc' = "request"
  /\ k' = 1
  /\ i' = 1
  /\ signerPublicKeys' = NoPublicKeys
  /\ decodeCalls' = <<>>
  /\ transactions' = <<>>
  /\ IF Len(d.signatureRequest) <= 0
       THEN outcome' = Rejected(Pending,
                 "You passed an empty signatureRequest in decodeTransaction.")
       ELSE outcome' = Pending
  /\ UNCHANGED <<clientVars, lifecycleVars, ledger, encodeVars>>

\* head of the outer loop body: resolve the decoding party's keys
NextRequest ==
  /\ pc = "request"
  /\ k <= Len(data.signatureRequest)
  /\ LET pk == getPublicKeys(ledger, data.username, CurrentRequest.keyType) IN
       /\ signerPublicKeys' = pk
       /\ IF ~pk.defined
            THEN outcome' = Rejected(outcome, "No publicKey can be found for ")
            ELSE UNCHANGED outcome
  /\ i' = 1
  /\ pc' = "signer"
  /\ UNCHANGED <<clientVars, decodeCalls, lifecycleVars, encodeVars, ledger, call, data, k, transactions>>

\* an entry addressed to another key is passed over
SkipSigner ==
  /\ pc = "signer"
  /\ i <= Len(CurrentRequest.signers)
  /\ ~Includes(signerPublicKeys, CurrentSigner.publicKey)
  /\ i' = i + 1
  /\ UNCHANGED <<clientVars, decodeCalls, lifecycleVars, encodeVars, ledger, call, pc, data, k, signerPublicKeys, transactions,
                 outcome>>

\* an entry addressed to one of the decoding party's keys: decrypt, parse,
\* validate against the ledger, then push or reject
DecodeSigner ==
  /\ pc = "signer"
  /\ i <= Len(CurrentRequest.signers)
  /\ Includes(signerPublicKeys, CurrentSigner.publicKey)
  /\ decodeCalls' = Append(decodeCalls, DecodeRequest(data, CurrentRequest,
                                                       CurrentSigner))
  /\ \E r \in KeychainDecode(data.username, CurrentSigner.encryptedTransaction) :
       LET e == DecodeEntry(ledger, CurrentRequest, CurrentSigner,
                            data.username, r)
       IN IF e.accepted
            THEN /\ transactions' =
                      Append(transactions,
                             DecodedTransaction(CurrentRequest, CurrentSigner,
                                                e.tx, data.username))
                 /\ UNCHANGED outcome
            ELSE /\ outcome' = Rejected(outcome, e.reason)
                 /\ UNCHANGED transactions
  /\ i' = i + 1
  /\ UNCHANGED <<clientVars, lifecycleVars, encodeVars, ledger, call, pc, data, k, signerPublicKeys>>

\* the inner loop is over: next request
EndRequest ==
  /\ pc = "signer"
  /\ i > Len(CurrentRequest.signers)
  /\ k' = k + 1
  /\ pc' = "request"
  /\ UNCHANGED <<clientVars, decodeCalls, lifecycleVars, encodeVars, ledger, call, data, i, signerPublicKeys, transactions,
                 outcome>>

\* after the loops: reject when nothing was decoded, else resolve
Finish ==
  /\ pc = "request"
  /\ k > Len(data.signatureRequest)
  /\ pc' = "done"
  /\ IF Len(transactions) = 0
       THEN outcome' = Rejected(outcome, "No decoded transactions")
       ELSE outcome' = Resolved(outcome, transactions)
  /\ UNCHANGED <<clientVars, decodeCalls, lifecycleVars, encodeVars, ledger, call, data, k, i, signerPublicKeys, transactions>>

\* ------------------------------------------------ utils.encodeTransaction
\* keychain.signTx: the provider may throw, answer success:false, or answer
\* with the transaction carrying the user's signature
Signature(username, method) == [by |-> username, method |-> method]
SignedTransaction(tx, username, method) ==
  [hasOperations |-> tx.hasOperations, operations |-> tx.operations,
   signatures |-> (IF "signatures" \in DOMAIN tx THEN tx.signatures ELSE <<>>)
                    \o <<Signature(username, method)>>]
KeychainSignTx(username, tx, method) ==
  { [threw |-> TRUE, success |-> FALSE, result |-> TxNoOperations],
    [threw |-> FALSE, success |-> FALSE, result |-> TxNoOperations],
    [threw |-> FALSE, success |-> TRUE,
     result |-> SignedTransaction(tx, username, method)] }

\* the distinct keys of a key list
KeySet(publicKeys) == {publicKeys[n] : n \in 1..Len(publicKeys)}

\* the objects keychain.encodeWithKeys can answer with: a property per key
\* it encrypted to, in any order, some requested keys possibly left out or
\* holding undefined
ResultMaps(publicKeys, message) ==
  {m \in SeqsUpTo([key : KeySet(publicKeys), encrypted : BOOLEAN],
                  Cardinality(KeySet(publicKeys))) :
     \A a, b \in 1..Len(m) : a # b => m[a].key # m[b].key}

\* the ciphertext the provider holds under a property of its answer
PropertyValue(property, message) ==
  IF property.encrypted THEN Encrypted(property.key, message) ELSE NoCiphertext

\* keychain.encodeWithKeys: throws, or answers with success and result
KeychainEncodeWithKeys(publicKeys, message) ==
  { [threw |-> TRUE, success |-> FALSE, result |-> [present |-> FALSE, map |-> <<>>]] }
  \cup { [threw |-> FALSE, success |-> ok,
           result |-> [present |-> FALSE, map |-> <<>>]] : ok \in BOOLEAN }
  \cup { [threw |-> FALSE, success |-> ok,
           result |-> [present |-> TRUE,
                       map |-> [n \in 1..Len(m) |->
                                  [key |-> m[n].key,
                                   value |-> PropertyValue(m[n], message)]]]] :
           ok \in BOOLEAN, m \in ResultMaps(publicKeys, message) }

\* JSON.parse(JSON.stringify(map)): properties holding undefined are dropped
RECURSIVE JsonRoundTrip(_)
JsonRoundTrip(map) ==
  IF map = <<>> THEN <<>>
  ELSE IF Head(map).value = NoCiphertext THEN JsonRoundTrip(Tail(map))
  ELSE <<Head(map)>> \o JsonRoundTrip(Tail(map))

\* encodedTx[key]
Lookup(map, key) ==
  IF \E n \in 1..Len(map) : map[n].key = key
    THEN map[CHOOSE n \in 1..Len(map) : map[n].key = key].value
    ELSE NoCiphertext

\* weight.toString()
NumberToString(n) == [type |-> "string", digits |-> n]

\* the signer list kept as it comes from the ledger
FilterInitiator_Keep(signers, publicKey) == signers

\* potentialSigners.filter((signer) => signer[0] !== data.initiator.publicKey)
FilterInitiator(signers, publicKey) ==
  SelectSeq(signers, LAMBDA signer : signer[1] # publicKey)

\* the loop passing over the signers the answer holds nothing for
SignerList_OnlyEncrypted(potentialSigners, encodedTx) ==
  LET held == SelectSeq(potentialSigners,
                        LAMBDA signer : Lookup(encodedTx, signer[1]) # NoCiphertext)
  IN [n \in 1..Len(held) |->
        [encryptedTransaction |-> Lookup(encodedTx, held[n][1]),
         publicKey |-> held[n][1],
         weight |-> NumberToString(held[n][2])]]

\* the loop building signerList from the parsed answer
SignerList(potentialSigners, encodedTx) ==
  [n \in 1..Len(potentialSigners) |->
     [encryptedTransaction |-> Lookup(encodedTx, potentialSigners[n][1]),
      publicKey |-> potentialSigners[n][1],
      weight |-> NumberToString(potentialSigners[n][2])]]

\* signatures[0] of the signed transaction
FirstSignature(signedTransaction) ==
  IF Len(signedTransaction.signatures) > 0
    THEN signedTransaction.signatures[1]
    ELSE [by |-> Undefined, method |-> Undefined]

\* the RequestSignatureMessage handed to resolve()
RequestSignatureMessage(e, encodedTx) ==
  [signatureRequest |->
     [expirationDate |-> e.data.expirationDate, threshold |-> e.threshold,
      keyType |-> e.data.method,
      signers |-> SignerList(e.potentialSigners, encodedTx)],
   initialSigner |->
     [username |-> e.data.initiator.username,
      publicKey |-> e.data.initiator.publicKey,
      signature |-> FirstSignature(e.signature.result),
      weight |-> e.data.initiator.weight]]

\* the requests as the keychain sees them
SignTxRequest(d) ==
  [name |-> "signTx", username |-> d.initiator.username,
   tx |-> d.transaction, method |-> d.method]
EncodeWithKeysRequest(d, broadcaster, signers) ==
  [name |-> "encodeWithKeys", username |-> broadcaster,
   publicKeys |-> [n \in 1..Len(signers) |-> signers[n][1]],
   message |-> Plain(d.transaction), method |-> d.method]

\* the broadcaster as encodeTransaction computes it
Broadcaster(e) == getUsernameFromTransaction(e.data.transaction)

\* reject(new Error(...)) followed by return, and the catch block
EncodeFailed(e, reason) ==
  [e EXCEPT !.pc = "done", !.outcome = Rejected(e.outcome, reason)]

\* the failed signature rejecting without leaving the function
SignTxAnswered_NoReturn(e, r) ==
  IF r.threw
    THEN EncodeFailed(e, "Error occurred during encodeTransaction: ")
  ELSE LET f == [e EXCEPT !.signature = r,
                          !.outcome =
                             IF r.success THEN e.outcome
                             ELSE Rejected(e.outcome,
                                    "Failed to sign transaction during transaction encoding")]
       IN IF Truthy(Broadcaster(e))
            THEN [f EXCEPT !.pc = "getThreshold"]
            ELSE EncodeFailed(f, "Failed to get broadcaster from transaction")

\* the function ending without the rejection for a missing broadcaster
SignTxAnswered_NoBroadcasterSilent(e, r) ==
  IF r.threw
    THEN EncodeFailed(e, "Error occurred during encodeTransaction: ")
  ELSE IF ~r.success
    THEN EncodeFailed([e EXCEPT !.signature = r],
                      "Failed to sign transaction during transaction encoding")
  ELSE IF Truthy(Broadcaster(e))
    THEN [e EXCEPT !.signature = r, !.pc = "getThreshold"]
    ELSE [e EXCEPT !.signature = r, !.pc = "done"]

\* from the answer of keychain.signTx to the call of getThreshold
SignTxAnswered(e, r) ==
  IF r.threw
    THEN EncodeFailed(e, "Error occurred during encodeTransaction: ")
  ELSE IF ~r.success
    THEN EncodeFailed([e EXCEPT !.signature = r],
                      "Failed to sign transaction during transaction encoding")
  ELSE IF Truthy(Broadcaster(e))
    THEN [e EXCEPT !.signature = r, !.pc = "getThreshold"]
    ELSE EncodeFailed([e EXCEPT !.signature = r],
                      "Failed to get broadcaster from transaction")

\* the answer accepted on its result alone
EncodeSucceeded_ResultOnly(r) == r.result.present

\* encodedTransaction.success && encodedTransaction.result
EncodeSucceeded(r) == r.success /\ r.result.present

\* from the answer of keychain.encodeWithKeys to the end of the function
EncodeWithKeysAnswered(e, r) ==
  IF r.threw
    THEN EncodeFailed(e, "Error occurred during encodeTransaction: ")
  ELSE IF EncodeSucceeded(r)
    THEN [e EXCEPT !.encodedTransaction = r, !.pc = "done",
                   !.outcome =
                      Resolved(e.outcome,
                        RequestSignatureMessage(e, JsonRoundTrip(r.result.map)))]
    ELSE EncodeFailed([e EXCEPT !.encodedTransaction = r],
                      "Failed to encode transaction")

\* entry of the call: keychain.signTx is asked for the initiator's signature
encodeTransaction(d) ==
  /\ pc = "idle"
  /\ encode.pc = "idle"
  /\ call' = [name |-> "encodeTransaction"]
  /\ encode' = [NoEncode EXCEPT !.pc = "signTx", !.data = d]
  /\ keychainCalls' = Append(keychainCalls, SignTxRequest(d))
  /\ UNCHANGED <<clientVars, lifecycleVars, ledger, decodeVars>>

\* a refused signature asked for a second time
SignTx_Retry ==
  /\ encode.pc = "signTx"
  /\ \E r \in KeychainSignTx(encode.data.initiator.username,
                              encode.data.transaction, encode.data.method) :
       IF ~r.threw /\ ~r.success /\ Len(keychainCalls) = 1
         THEN /\ keychainCalls' = Append(keychainCalls, SignTxRequest(encode.data))
              /\ UNCHANGED encode
         ELSE /\ encode' = SignTxAnswered(encode, r)
              /\ UNCHANGED keychainCalls
  /\ UNCHANGED <<clientVars, lifecycleVars, ledger, call, decodeVars>>

\* keychain.signTx answers; the broadcaster is extracted
SignTx ==
  /\ encode.pc = "signTx"
  /\ \E r \in KeychainSignTx(encode.data.initiator.username,
                              encode.data.transaction, encode.data.method) :
       encode' = SignTxAnswered(encode, r)
  /\ UNCHANGED <<clientVars, lifecycleVars, ledger, call, decodeVars, keychainCalls>>

\* HiveUtils.getThreshold reads the ledger
GetThreshold ==
  /\ encode.pc = "getThreshold"
  /\ encode' = [encode EXCEPT
                  !.threshold = getThreshold(ledger, Broadcaster(encode),
                                             encode.data.method),
                  !.pc = "getPotentialSigners"]
  /\ UNCHANGED <<clientVars, lifecycleVars, ledger, call, decodeVars, keychainCalls>>

\* HiveUtils.getPotentialSigners reads the ledger; the initiator's key is
\* filtered out; with signers left keychain.encodeWithKeys is asked, without
\* the function runs to its end
GetPotentialSigners ==
  /\ encode.pc = "getPotentialSigners"
  /\ LET signers ==
           FilterInitiator(getPotentialSigners(ledger, Broadcaster(encode),
                                               encode.data.method),
                           encode.data.initiator.publicKey)
     IN IF Len(signers) > 0
          THEN /\ encode' = [encode EXCEPT !.potentialSigners = signers,
                                           !.pc = "encodeWithKeys"]
               /\ keychainCalls' =
                    Append(keychainCalls,
                           EncodeWithKeysRequest(encode.data,
                                                 Broadcaster(encode), signers))
          ELSE /\ encode' = [encode EXCEPT !.potentialSigners = signers,
                                           !.pc = "done"]
               /\ UNCHANGED keychainCalls
  /\ UNCHANGED <<clientVars, lifecycleVars, ledger, call, decodeVars>>

\* keychain.encodeWithKeys answers; the request is built and resolved, or the
\* call is rejected
EncodeWithKeys ==
  /\ encode.pc = "encodeWithKeys"
  /\ \E r \in KeychainEncodeWithKeys(
                 keychainCalls[Len(keychainCalls)].publicKeys,
                 keychainCalls[Len(keychainCalls)].message) :
       encode' = EncodeWithKeysAnswered(encode, r)
  /\ UNCHANGED <<clientVars, lifecycleVars, ledger, call, decodeVars, keychainCalls>>

\* ------------------------------------------- signature-request lifecycle
\* the weight of the entries holding a signature, with the initiator's
RECURSIVE SignedWeightFrom(_, _)
SignedWeightFrom(signers, n) ==
  IF n > Len(signers) THEN 0
  ELSE (IF signers[n].signature # NoSignature THEN signers[n].weight ELSE 0)
         + SignedWeightFrom(signers, n + 1)
SignedWeight(req) == req.initiatorWeight + SignedWeightFrom(req.signers, 1)

\* the transition taken on every signature at or above the threshold
BecomesReady_LevelTriggered(state, weight, threshold) == weight >= threshold

\* the threshold edge: only a request awaiting signatures turns ready
BecomesReady(state, weight, threshold) ==
  state = "AwaitingSignatures" /\ weight >= threshold

\* the state after an event, computed from the current total
StateAfter(req) ==
  IF BecomesReady(req.state, SignedWeight(req), req.threshold)
    THEN "ReadyToBroadcast"
    ELSE req.state

\* the weight of signer entry id
WeightOf(req, id) ==
  req.signers[CHOOSE n \in 1..Len(req.signers) : req.signers[n].id = id].weight

\* the signature kept as one more record of the list
AttachSignature_Append(req, m) ==
  [req EXCEPT !.signers =
     Append(@, [id |-> m.signerId, weight |-> WeightOf(req, m.signerId),
                signature |-> m.signature, refused |-> FALSE])]

\* the signature of message m attached to its signer entry; an entry that
\* holds a signature keeps it, and a refused entry stays refused
AttachSignature(req, m) ==
  [req EXCEPT !.signers =
     [n \in 1..Len(req.signers) |->
        IF req.signers[n].id = m.signerId
             /\ req.signers[n].signature = NoSignature
             /\ ~req.signers[n].refused
          THEN [req.signers[n] EXCEPT !.signature = m.signature]
          ELSE req.signers[n]]]

\* the terminal states
Terminal(state) == state \in {"Broadcasted", "Expired", "Refused"}

\* the expiration check made without looking at the state
Expire_AnyState(req, t) ==
  IF t > req.expirationDate THEN [req EXCEPT !.state = "Expired"] ELSE req

\* the lazy expiration check made whenever the request is touched
Expire(req, t) ==
  IF req.state \in {"Created", "AwaitingSignatures"} /\ t > req.expirationDate
    THEN [req EXCEPT !.state = "Expired"]
    ELSE req

\* the message wss.signTransaction emits
SignTransactionMessage(d, signedTransaction) ==
  [signature |-> signedTransaction.signatures[Len(signedTransaction.signatures)],
   signerId |-> d.signerId, signatureRequestId |-> d.signatureRequestId]

\* wss.requestSignatures: the request is dispatched to the channel
requestSignatures ==
  /\ request.state = "Created"
  /\ LET touched == Expire(request, now)
         dispatched == IF Terminal(touched.state) THEN touched
                       ELSE [touched EXCEPT !.state = "AwaitingSignatures"]
         turnsReady == BecomesReady(dispatched.state, SignedWeight(dispatched),
                                    dispatched.threshold)
     IN /\ request' = [dispatched EXCEPT !.state = StateAfter(dispatched)]
        /\ readyTransitions' =
             IF turnsReady THEN readyTransitions + 1 ELSE readyTransitions
  /\ UNCHANGED <<clientVars, ledger, call, decodeVars, encodeVars, sent, now, duplicates,
                 broadcast, notified>>

\* what wss.signTransaction emits on the answer r of keychain.signTx
SignTransactionEmits(d, r) ==
  IF ~r.threw /\ r.success THEN <<SignTransactionMessage(d, r.result)>>
  ELSE <<>>

\* wss.signTransaction: the keychain signs, the signature is emitted
signTransaction(d) ==
  /\ request.state # "Created"
  /\ \E r \in KeychainSignTx(d.username, d.decodedTransaction, d.method) :
       sent' = sent \cup {SignTransactionEmits(d, r)[n] :
                            n \in 1..Len(SignTransactionEmits(d, r))}
  /\ UNCHANGED <<clientVars, ledger, call, decodeVars, encodeVars, request, readyTransitions,
                 now, duplicates, broadcast, notified>>

\* the entry of message m holds the signature of m already
AlreadyAttached(req, m) ==
  \E n \in 1..Len(req.signers) :
     req.signers[n].id = m.signerId /\ req.signers[n].signature = m.signature

\* the coordinator receives a SIGN_TRANSACTION message, possibly once more
ReceiveSignature(m) ==
  /\ m.signatureRequestId = request.id
  /\ AlreadyAttached(request, m) => duplicates < MaxDuplicates
  /\ duplicates' = IF AlreadyAttached(request, m) THEN duplicates + 1
                                                   ELSE duplicates
  /\ LET touched == Expire(request, now)
         signed == IF Terminal(touched.state) THEN touched
                   ELSE AttachSignature(touched, m)
         turnsReady == BecomesReady(signed.state, SignedWeight(signed),
                                    signed.threshold)
     IN /\ request' = [signed EXCEPT !.state = StateAfter(signed)]
        /\ readyTransitions' =
             IF turnsReady THEN readyTransitions + 1 ELSE readyTransitions
  /\ UNCHANGED <<clientVars, ledger, call, decodeVars, encodeVars, sent, now, broadcast,
                 notified>>

\* the weight of the entries that neither signed nor refused
RECURSIVE PendingWeightFrom(_, _)
PendingWeightFrom(signers, n) ==
  IF n > Len(signers) THEN 0
  ELSE (IF signers[n].signature = NoSignature /\ ~signers[n].refused
          THEN signers[n].weight ELSE 0)
         + PendingWeightFrom(signers, n + 1)

\* the check that counts the signed weight alone
Feasible_SignedOnly(req) ==
  SignedWeight(req) >= req.threshold

\* the feasibility check: the weight already signed and the weight that can
\* still sign reach the threshold
Feasible(req) ==
  SignedWeight(req) + PendingWeightFrom(req.signers, 1) >= req.threshold

\* a refusal overwriting what the entry holds
MarkRefused_Overwrite(req, id) ==
  [req EXCEPT !.signers =
     [n \in 1..Len(req.signers) |->
        IF req.signers[n].id = id
          THEN [req.signers[n] EXCEPT !.refused = TRUE]
          ELSE req.signers[n]]]

\* refused set on the entry; an entry that signed keeps its signature
MarkRefused(req, id) ==
  [req EXCEPT !.signers =
     [n \in 1..Len(req.signers) |->
        IF req.signers[n].id = id /\ req.signers[n].signature = NoSignature
          THEN [req.signers[n] EXCEPT !.refused = TRUE]
          ELSE req.signers[n]]]

\* the state after a refusal
StateAfterRefusal(req) ==
  IF req.state = "AwaitingSignatures" /\ ~Feasible(req)
    THEN "Refused"
    ELSE req.state

\* the coordinator receives the refusal of signer entry id; a refusal that
\* changes no entry (the entry signed or refused before) changes nothing
ReceiveRefusal(id) ==
  /\ request.state # "Created"
  /\ LET touched == Expire(request, now)
         marked == IF Terminal(touched.state) THEN touched
                   ELSE MarkRefused(touched, id)
     IN request' = IF marked = touched THEN touched
                   ELSE [marked EXCEPT !.state = StateAfterRefusal(marked)]
  /\ UNCHANGED <<clientVars, ledger, call, decodeVars, encodeVars, sent, readyTransitions,
                 now, duplicates, broadcast, notified>>

\* HiveUtils.broadcastTx: client.broadcast.send answers with a confirmation
\* or throws
BroadcastTxAnswers ==
  { [threw |-> TRUE, result |-> [id |-> Undefined]],
    [threw |-> FALSE, result |-> [id |-> "confirmed"]] }

\* the message wss.broadcastTransaction emits
NotifyTxBroadcastedMessage(transaction) ==
  [signatureRequestId |-> transaction.signatureRequestId]

\* the notification emitted whatever the ledger answered
BroadcastAnswered_NotifyAlways(b, r) ==
  IF r.threw
    THEN [b EXCEPT !.pc = "done", !.emit = TRUE,
                   !.outcome = Rejected(b.outcome,
                      "Error occured during notifyTransactionBroadcased: ")]
    ELSE [b EXCEPT !.pc = "notify", !.confirmed = TRUE, !.result = r.result,
                   !.emit = TRUE]

\* from the answer of HiveUtils.broadcastTx to the emit, or to the catch block
BroadcastAnswered(b, r) ==
  IF r.threw
    THEN [b EXCEPT !.pc = "done", !.emit = FALSE,
                   !.outcome = Rejected(b.outcome,
                      "Error occured during notifyTransactionBroadcased: ")]
    ELSE [b EXCEPT !.pc = "notify", !.confirmed = TRUE, !.result = r.result,
                   !.emit = TRUE]

\* entry of wss.broadcastTransaction, called for a request that is ready
\* to broadcast: the ledger is asked to broadcast
broadcastTransaction(transaction) ==
  /\ broadcast.pc = "idle"
  /\ request.state = "ReadyToBroadcast"
  /\ broadcast' = [broadcast EXCEPT !.pc = "broadcastTx",
                                    !.transaction = transaction]
  /\ UNCHANGED <<clientVars, ledger, call, decodeVars, encodeVars, request, sent,
                 readyTransitions, now, duplicates, notified>>

\* the ledger answers; on success the notification is emitted
BroadcastTx ==
  /\ broadcast.pc = "broadcastTx"
  /\ \E r \in BroadcastTxAnswers :
       /\ broadcast' = BroadcastAnswered(broadcast, r)
       /\ notified' =
            IF broadcast'.emit
              THEN notified \cup {NotifyTxBroadcastedMessage(broadcast.transaction)}
              ELSE notified
  /\ UNCHANGED <<clientVars, ledger, call, decodeVars, encodeVars, request, sent,
                 readyTransitions, now, duplicates>>

\* the state after a broadcast notification
StateAfterBroadcast(req, t) ==
  IF req.state = "ReadyToBroadcast" THEN "Broadcasted" ELSE Expire(req, t).state

\* the coordinator receives NOTIFY_TRANSACTION_BROADCASTED and acknowledges;
\* the acknowledgement callback of wss.broadcastTransaction resolves
ReceiveBroadcastNotification(m) ==
  /\ m.signatureRequestId = request.id
  /\ request' = [request EXCEPT !.state = StateAfterBroadcast(request, now)]
  /\ broadcast' =
       IF broadcast.pc = "notify"
         THEN [broadcast EXCEPT !.pc = "done",
                                !.outcome = Resolved(broadcast.outcome,
                                                     broadcast.result)]
         ELSE broadcast
  /\ UNCHANGED <<clientVars, ledger, call, decodeVars, encodeVars, sent, readyTransitions,
                 now, duplicates, notified>>

\* time passes, until the expiration date of the request is behind
Tick ==
  /\ now <= request.expirationDate
  /\ now' = now + 1
  /\ UNCHANGED <<clientVars, ledger, call, decodeVars, encodeVars, request, sent,
                 readyTransitions, duplicates, broadcast, notified>>

\* ----------------------------------------------------------- SDK client
\* new HiveMultisigSDK(window, options)
Constructed(window, options) ==
  [created |-> TRUE, window |-> window,
   options |-> IF options.defined THEN options.value ELSE DefaultOptions]

\* an instance constructed at every call
getInstance_AlwaysNew(window, options) ==
  /\ instance' = Constructed(window, options)
  /\ connections' = Append(connections, instance'.options.socketAddress)
  /\ returned' = [called |-> TRUE, window |-> window, options |-> options,
                  result |-> instance']
  /\ UNCHANGED <<ledger, call, decodeVars, encodeVars, lifecycleVars,
                 subscribeCall, signCall, emitted>>

\* HiveMultisigSDK.getInstance: the constructor, which connects the socket,
\* runs when the static field holds no instance
getInstance(window, options) ==
  /\ instance' = IF ~instance.created THEN Constructed(window, options)
                 ELSE instance
  /\ connections' = IF ~instance.created
                      THEN Append(connections, instance'.options.socketAddress)
                      ELSE connections
  /\ returned' = [called |-> TRUE, window |-> window, options |-> options,
                  result |-> instance']
  /\ UNCHANGED <<ledger, call, decodeVars, encodeVars, lifecycleVars,
                 subscribeCall, signCall, emitted>>

\* JSON.stringify of a string value: the text between double quotes
JsonStringifyString(v) == "\"" \o v \o "\""

\* text.replace(/"/g, '')
RECURSIVE ReplaceQuotes(_)
ReplaceQuotes(text) ==
  IF Len(text) = 0 THEN ""
  ELSE (IF SubSeq(text, 1, 1) = "\"" THEN "" ELSE SubSeq(text, 1, 1))
         \o ReplaceQuotes(SubSeq(text, 2, Len(text)))

\* keychain.signBuffer: the provider may throw, answer success:false, or
\* answer with the signature, with or without the public key
KeychainSignBuffer(username, message, method) ==
  { [threw |-> TRUE, success |-> FALSE, result |-> "", publicKey |-> Undefined],
    [threw |-> FALSE, success |-> FALSE, result |-> "", publicKey |-> Undefined] }
  \cup
  { [threw |-> FALSE, success |-> TRUE, result |-> "sig:" \o message,
     publicKey |-> pk] : pk \in {Undefined, Key(username)} }

\* the message wss.subscribe emits
SignerConnectEmit(d) == [command |-> "signer_connect", payload |-> <<d>>]

\* the message wss.signTransaction emits, with its command
SignTransactionEmit(m) == [command |-> "sign_transaction", payload |-> m]

\* `if (data.message)`: the connect message is emitted, or the call rejects
SubscribeChecked(s) ==
  IF Truthy(s.data.message)
    THEN [s EXCEPT !.pc = "emitted"]
    ELSE [s EXCEPT !.pc = "done",
                   !.outcome = Rejected(s.outcome,
                      "Error while signing buffer during signerConnect")]

\* entry of the call with the signature asked for whatever the argument holds
SubscribeEntered_AlwaysSign(d) ==
  [NoSubscribe EXCEPT !.pc = "signBuffer", !.data = d, !.argument = d,
                      !.signBufferCalls = 1]

\* entry of the call: keychain.signBuffer is asked unless the argument
\* carries a message
SubscribeEntered(d) ==
  IF ~Truthy(d.message)
    THEN [NoSubscribe EXCEPT !.pc = "signBuffer", !.data = d, !.argument = d,
                             !.signBufferCalls = 1]
    ELSE SubscribeChecked([NoSubscribe EXCEPT !.data = d, !.argument = d])

\* from the answer of keychain.signBuffer to the emit, or to a rejection
SignBufferAnswered(s, r) ==
  IF r.threw
    THEN [s EXCEPT !.pc = "done", !.signBuffer = r,
                   !.outcome = Rejected(s.outcome,
                      "Error occurred during signerConnect: ")]
  ELSE IF r.success
    THEN SubscribeChecked(
           [s EXCEPT !.signBuffer = r,
                     !.data.message =
                        ReplaceQuotes(JsonStringifyString(r.result)),
                     !.data.publicKey =
                        IF Truthy(r.publicKey) THEN r.publicKey ELSE ""])
  ELSE SubscribeChecked([s EXCEPT !.signBuffer = r])

\* the responses the server acknowledges SIGNER_CONNECT with
SignerConnectResponses ==
  {[errors |-> e, result |-> res, message |-> Undefined, publicKey |-> Undefined] :
     e \in {Undefined, "signature invalid"}, res \in {Undefined, "pending"}}

\* the acknowledgement callback resolving whatever the response holds
SignerConnectAcknowledged_ResolveOnly(s, response) ==
  [s EXCEPT !.pc = "done",
            !.outcome =
               Resolved(s.outcome,
                        [response EXCEPT !.message = s.data.message,
                                         !.publicKey = s.data.publicKey])]

\* the acknowledgement callback of SIGNER_CONNECT: reject on errors, then
\* resolve with the response carrying the message and the public key
SignerConnectAcknowledged(s, response) ==
  [s EXCEPT !.pc = "done",
            !.outcome =
               Resolved(IF Truthy(response.errors)
                          THEN Rejected(s.outcome, response.errors)
                          ELSE s.outcome,
                        [response EXCEPT !.message = s.data.message,
                                         !.publicKey = s.data.publicKey])]

\* wss.subscribe is called
subscribe(d) ==
  /\ subscribeCall.pc = "idle"
  /\ subscribeCall' = SubscribeEntered(d)
  /\ emitted' = IF subscribeCall'.pc = "emitted"
                  THEN Append(emitted, SignerConnectEmit(subscribeCall'.data))
                  ELSE emitted
  /\ UNCHANGED <<ledger, call, decodeVars, encodeVars, lifecycleVars, instance,
                 connections, returned, signCall>>

\* keychain.signBuffer answers
SignBuffer ==
  /\ subscribeCall.pc = "signBuffer"
  /\ \E r \in KeychainSignBuffer(subscribeCall.data.username,
                                  subscribeCall.data.username,
                                  subscribeCall.data.keyType) :
       subscribeCall' = SignBufferAnswered(subscribeCall, r)
  /\ emitted' = IF subscribeCall'.pc = "emitted"
                  THEN Append(emitted, SignerConnectEmit(subscribeCall'.data))
                  ELSE emitted
  /\ UNCHANGED <<ledger, call, decodeVars, encodeVars, lifecycleVars, instance,
                 connections, returned, signCall>>

\* the server acknowledges SIGNER_CONNECT
SignerConnectAck ==
  /\ subscribeCall.pc = "emitted"
  /\ \E response \in SignerConnectResponses :
       subscribeCall' = SignerConnectAcknowledged(subscribeCall, response)
  /\ UNCHANGED <<ledger, call, decodeVars, encodeVars, lifecycleVars, instance,
                 connections, returned, signCall, emitted>>

\* the rejection of the earlier revision, called once the message is emitted
SignTransactionAnswered_RejectAfterEmit(s, r) ==
  IF r.threw
    THEN [s EXCEPT !.pc = "done", !.signature = r,
                   !.outcome = Rejected(s.outcome,
                      "Error occured during signTransaction: ")]
  ELSE IF r.success
    THEN [s EXCEPT !.pc = "emitted", !.signature = r,
                   !.outcome = Rejected(s.outcome,
                      "Error occured during signTransaction: ")]
  ELSE [s EXCEPT !.pc = "done", !.signature = r,
                 !.outcome = Rejected(s.outcome, "signature.error")]

\* from the answer of keychain.signTx to the emit, or to a rejection
SignTransactionAnswered(s, r) ==
  IF r.threw
    THEN [s EXCEPT !.pc = "done", !.signature = r,
                   !.outcome = Rejected(s.outcome,
                      "Error occured during signTransaction: ")]
  ELSE IF r.success
    THEN [s EXCEPT !.pc = "emitted", !.signature = r]
  ELSE [s EXCEPT !.pc = "done", !.signature = r,
                 !.outcome = Rejected(s.outcome, "signature.error")]

\* entry of wss.signTransaction: keychain.signTx is asked
signTransactionCalled(d) ==
  /\ signCall.pc = "idle"
  /\ signCall' = [NoSign EXCEPT !.pc = "signTx", !.data = d]
  /\ UNCHANGED <<ledger, call, decodeVars, encodeVars, lifecycleVars, instance,
                 connections, returned, subscribeCall, emitted>>

\* keychain.signTx answers; on success the signature is emitted
SignTransactionSigned ==
  /\ signCall.pc = "signTx"
  /\ \E r \in KeychainSignTx(signCall.data.username,
                              signCall.data.decodedTransaction,
                              signCall.data.method) :
       /\ signCall' = SignTransactionAnswered(signCall, r)
       /\ emitted' =
            emitted \o [n \in 1..Len(SignTransactionEmits(signCall.data, r)) |->
                          SignTransactionEmit(
                            SignTransactionEmits(signCall.data, r)[n])]
  /\ UNCHANGED <<ledger, call, decodeVars, encodeVars, lifecycleVars, instance,
                 connections, returned, subscribeCall>>

\* the responses the server acknowledges SIGN_TRANSACTION with
SignTransactionResponses == {<<>>, <<"sig-1">>}

\* the acknowledgement callback of SIGN_TRANSACTION resolves the call
SignTransactionAck ==
  /\ signCall.pc = "emitted"
  /\ \E response \in SignTransactionResponses :
       signCall' = [signCall EXCEPT !.pc = "done",
                                    !.outcome = Resolved(signCall.outcome, response)]
  /\ UNCHANGED <<ledger, call, decodeVars, encodeVars, lifecycleVars, instance,
                 connections, returned, subscribeCall, emitted>>

\* ------------------------------------------------------- specifications
\* the client calls utils.encodeTransaction on some arguments
EncodeCall ==
  /\ call = NoCall
  /\ pc = "idle"
  /\ \E d \in EncodeInputs : encodeTransaction(d)

\* the client calls validateInitiatorOverBroadcaster on some arguments
ValidateCall ==
  /\ call = NoCall
  /\ \E n \in Names : \E t \in KeyTypes : \E tx \in PayloadTxs :
       CallValidate(n, t, tx)

\* the client calls utils.decodeTransaction on some batch
DecodeCall ==
  /\ pc = "idle"
  /\ encode.pc = "idle"
  /\ \E d \in DecodeInputs : decodeTransaction(d)

\* the request the coordinator hands to a signer for a RequestSignatureMessage
\* it was sent: an id, the initial signer as initiator, an id per entry
StoredRequest(message) ==
  [id |-> 1, keyType |-> message.signatureRequest.keyType,
   initiator |-> message.initialSigner.username,
   signers |->
     [n \in 1..Len(message.signatureRequest.signers) |->
        [id |-> n,
         publicKey |-> message.signatureRequest.signers[n].publicKey,
         encryptedTransaction |->
           message.signatureRequest.signers[n].encryptedTransaction,
         weight |-> message.signatureRequest.signers[n].weight]]]

\* a signer calls utils.decodeTransaction on the request that
\* utils.encodeTransaction resolved with
DecodeEncodedCall ==
  /\ pc = "idle"
  /\ encode.pc = "done"
  /\ encode.outcome.status = "resolved"
  /\ \E u \in Names :
       decodeTransaction([signatureRequest |-> <<StoredRequest(encode.outcome.value)>>,
                          username |-> u])

\* the client calls getUsernameFromTransaction on some transaction
UsernameCall ==
  /\ call = NoCall
  /\ \E tx \in Txs : CallGetUsername(tx)

Next ==
  \/ \E a \in Names : \E p \in AccountProfiles(a) : LedgerUpdate(a, p)
  \/ ValidateCall
  \/ DecodeCall
  \/ DecodeEncodedCall
  \/ NextRequest
  \/ SkipSigner
  \/ DecodeSigner
  \/ EndRequest
  \/ Finish
  \/ EncodeCall
  \/ SignTx
  \/ GetThreshold
  \/ GetPotentialSigners
  \/ EncodeWithKeys

Spec == Init /\ [][Next]_vars

\* getUsernameFromTransaction applied to every enumerated transaction
InitUsername ==
  /\ ledger = [a \in Names |-> [exists |-> TRUE, active |-> OwnAuth(a),
                                posting |-> OwnAuth(a)]]
  /\ call = NoCall
  /\ pc = "idle"
  /\ data = NoData
  /\ k = 1
  /\ i = 1
  /\ signerPublicKeys = NoPublicKeys
  /\ decodeCalls = <<>>
  /\ transactions = <<>>
  /\ outcome = Pending
  /\ encode = NoEncode
  /\ keychainCalls = <<>>
  /\ request = NoRequest
  /\ sent = {}
  /\ readyTransitions = 0
  /\ now = 0
  /\ duplicates = 0
  /\ broadcast = NoBroadcast
  /\ notified = {}
  /\ instance = NoInstance
  /\ connections = <<>>
  /\ returned = NoReturn
  /\ subscribeCall = NoSubscribe
  /\ signCall = NoSign
  /\ emitted = <<>>

\* the client calls getUsernameFromTransaction on custom operations
CustomCall ==
  /\ call = NoCall
  /\ \E tx \in CustomTxs : CallGetUsername(tx)

NextUsername == UsernameCall \/ CustomCall

SpecUsername == InitUsername /\ [][NextUsername]_vars

\* the lifecycle of one signature request, whose initiator has the weight
\* the enumerated initiators of utils.encodeTransaction have
LifecycleRequests ==
  {LifecycleRequest(t, ini.weight, ws) :
     t \in 1..MaxThreshold, ini \in Initiators,
     ws \in SeqsUpTo(1..MaxWeight, MaxSigners) \ {<<>>}}

\* the arguments of wss.signTransaction for the request's signer entries
SignInputs ==
  {[decodedTransaction |-> TxHi, signerId |-> n, signatureRequestId |-> request.id,
    username |-> "ha", method |-> request.keyType] :
     n \in 1..Len(request.signers)}

InitLifecycle ==
  /\ ledger = [a \in Names |-> [exists |-> TRUE, active |-> OwnAuth(a),
                                posting |-> OwnAuth(a)]]
  /\ call = NoCall
  /\ pc = "idle"
  /\ data = NoData
  /\ k = 1
  /\ i = 1
  /\ signerPublicKeys = NoPublicKeys
  /\ decodeCalls = <<>>
  /\ transactions = <<>>
  /\ outcome = Pending
  /\ encode = NoEncode
  /\ keychainCalls = <<>>
  /\ request \in LifecycleRequests
  /\ sent = {}
  /\ readyTransitions = 0
  /\ now = 0
  /\ duplicates = 0
  /\ broadcast = NoBroadcast
  /\ notified = {}
  /\ instance = NoInstance
  /\ connections = <<>>
  /\ returned = NoReturn
  /\ subscribeCall = NoSubscribe
  /\ signCall = NoSign
  /\ emitted = <<>>

SignCall == \E d \in SignInputs : signTransaction(d)

SignatureArrives == \E m \in sent : ReceiveSignature(m)

RefusalArrives == \E n \in 1..Len(request.signers) : ReceiveRefusal(n)

\* the ITransaction handed to wss.broadcastTransaction
BroadcastInputs ==
  {[transaction |-> TxHi, signatureRequestId |-> request.id]}

BroadcastCall == \E t \in BroadcastInputs : broadcastTransaction(t)

NotificationArrives == \E m \in notified : ReceiveBroadcastNotification(m)

NextLifecycle ==
  \/ requestSignatures
  \/ SignCall
  \/ SignatureArrives
  \/ RefusalArrives
  \/ BroadcastCall
  \/ BroadcastTx
  \/ NotificationArrives
  \/ Tick

SpecLifecycle == InitLifecycle /\ [][NextLifecycle]_vars

\* the calls a page makes on the SDK: getInstance, wss.subscribe and
\* wss.signTransaction
Windows == {"window-1", "window-2"}
OptionChoices ==
  {NoOptions,
   [defined |-> TRUE,
    value |-> [apiAddress |-> "https://api.example",
               socketAddress |-> "wss://ws.example",
               clientAddress |-> "https://rpc.example"]]}

\* the arguments of wss.subscribe: the connect message left out, empty or
\* signed beforehand
SubscribeInputs ==
  {[username |-> u, keyType |-> "posting", message |-> m,
    publicKey |-> IF known THEN Key(u) ELSE Undefined] :
     u \in Names, m \in {Undefined, "", "signed-before"}, known \in BOOLEAN}

\* the arguments of wss.signTransaction: a transaction that carries the
\* initiator's signature or none
ClientSignInputs ==
  {[decodedTransaction |-> tx, signerId |-> n, signatureRequestId |-> 7,
    username |-> "ha", method |-> "active"] :
     tx \in {TxHi, SignedTransaction(TxHi, "hi", "active")}, n \in 1..2}

InitClient ==
  /\ ledger = [a \in Names |-> [exists |-> TRUE, active |-> OwnAuth(a),
                                posting |-> OwnAuth(a)]]
  /\ call = NoCall
  /\ pc = "idle"
  /\ data = NoData
  /\ k = 1
  /\ i = 1
  /\ signerPublicKeys = NoPublicKeys
  /\ decodeCalls = <<>>
  /\ transactions = <<>>
  /\ outcome = Pending
  /\ encode = NoEncode
  /\ keychainCalls = <<>>
  /\ request = NoRequest
  /\ sent = {}
  /\ readyTransitions = 0
  /\ now = 0
  /\ duplicates = 0
  /\ broadcast = NoBroadcast
  /\ notified = {}
  /\ instance = NoInstance
  /\ connections = <<>>
  /\ returned = NoReturn
  /\ subscribeCall = NoSubscribe
  /\ signCall = NoSign
  /\ emitted = <<>>

GetInstanceCall ==
  \E window \in Windows : \E options \in OptionChoices :
     getInstance(window, options)

SubscribeCall == \E d \in SubscribeInputs : subscribe(d)

SignTransactionCall == \E d \in ClientSignInputs : signTransactionCalled(d)

NextClient ==
  \/ GetInstanceCall
  \/ SubscribeCall
  \/ SignBuffer
  \/ SignerConnectAck
  \/ SignTransactionCall
  \/ SignTransactionSigned
  \/ SignTransactionAck

SpecClient == InitClient /\ [][NextClient]_vars

\* the authority resolver on ledgers of three accounts
ResolverNames == {"hi", "ha", "ho"}
NextName(a) == IF a = "hi" THEN "ha" ELSE IF a = "ha" THEN "ho" ELSE "hi"
PrevName(a) == NextName(NextName(a))
SecondKey(a) == Key(a) \o "2"
ResolverKeys == {Key(a) : a \in ResolverNames} \cup {SecondKey(a) : a \in ResolverNames}

\* what the ledger can hold for account a: nothing; its own key; two keys
\* on active and another account's key on posting; delegations to one and
\* to two accounts; a delegation on posting only
ResolverProfiles(a) ==
  { [exists |-> FALSE, active |-> NoAuth, posting |-> NoAuth],
    [exists |-> TRUE, active |-> OwnAuth(a), posting |-> OwnAuth(a)],
    [exists |-> TRUE,
     active |-> Authority(1, <<>>, << <<Key(a), 1>>, <<SecondKey(a), 2>> >>),
     posting |-> Authority(1, <<>>, << <<Key(NextName(a)), 1>> >>)],
    [exists |-> TRUE,
     active |-> Authority(2, << <<NextName(a), 2>> >>, << <<Key(a), 1>> >>),
     posting |-> Authority(1, << <<NextName(a), 1>>, <<PrevName(a), 2>> >>, <<>>)],
    [exists |-> TRUE,
     active |-> OwnAuth(a),
     posting |-> Authority(1, << <<NextName(a), 1>> >>, << <<Key(a), 1>> >>)] }

ResolverLedgers ==
  {l \in [ResolverNames -> UNION {ResolverProfiles(a) : a \in ResolverNames}] :
     \A a \in ResolverNames : l[a] \in ResolverProfiles(a)}

InitResolver ==
  /\ ledger \in ResolverLedgers
  /\ call = NoCall
  /\ pc = "idle"
  /\ data = NoData
  /\ k = 1
  /\ i = 1
  /\ signerPublicKeys = NoPublicKeys
  /\ decodeCalls = <<>>
  /\ transactions = <<>>
  /\ outcome = Pending
  /\ encode = NoEncode
  /\ keychainCalls = <<>>
  /\ request = NoRequest
  /\ sent = {}
  /\ readyTransitions = 0
  /\ now = 0
  /\ duplicates = 0
  /\ broadcast = NoBroadcast
  /\ notified = {}
  /\ instance = NoInstance
  /\ connections = <<>>
  /\ returned = NoReturn
  /\ subscribeCall = NoSubscribe
  /\ signCall = NoSign
  /\ emitted = <<>>

PotentialSignersCall ==
  \E a \in ResolverNames : \E t \in KeyTypes : CallGetPotentialSigners(a, t)

AuthorityWeightCall ==
  \E p \in ResolverNames \cup ResolverKeys : \E a \in ResolverNames :
    \E t \in KeyTypes : CallGetAuthorityWeightOverUser(p, a, t)

SignersCall ==
  \E a \in ResolverNames : \E t \in KeyTypes : \E throws \in BOOLEAN :
    CallGetSigners(a, t, throws)

NextResolver == PotentialSignersCall \/ AuthorityWeightCall \/ SignersCall

SpecResolver == InitResolver /\ [][NextResolver]_vars

\* ------------------------------------------------------------ properties
IsUsernameCall == call.name = "getUsernameFromTransaction"
IsValidateCall == call.name = "validateInitiatorOverBroadcaster"

\* the operation list of the transaction of the call
CallOps == call.tx.operations

\* the operation is badly formed, in the words of the specification: no kind
\* tag, no operand, or an operand that is not an object
BadlyFormed(op) == op.tag = Undefined \/ op.operand.type # "object"

\* the kind tag is present and has no entry in the per-kind mapping
UnknownKind(op) == Truthy(op.tag) /\ op.tag \notin KnownKinds

\* the account the operation acts as, Undefined when it names none
ActingAccount(op) ==
  IF BadlyFormed(op) \/ op.tag = "" THEN Undefined ELSE NewUsername(op)

\* account names are non-empty strings
IsAccountName(v) == v # Undefined /\ v # ""

\* C1: a transaction with two or more operations of which two resolve to
\* different account names yields undefined, wherever the two operations are.
C1_DisagreementYieldsUndefined ==
  (IsUsernameCall /\ call.tx.hasOperations /\ Len(CallOps) >= 2
     /\ \E a, b \in 1..Len(CallOps) :
          /\ IsAccountName(ActingAccount(CallOps[a]))
          /\ IsAccountName(ActingAccount(CallOps[b]))
          /\ ActingAccount(CallOps[a]) # ActingAccount(CallOps[b]))
  => call.result = Undefined

\* the disagreement is between the last two of three operations
C1_Witness ==
  /\ IsUsernameCall
  /\ Len(CallOps) = 3
  /\ IsAccountName(ActingAccount(CallOps[1]))
  /\ ActingAccount(CallOps[1]) = ActingAccount(CallOps[2])
  /\ IsAccountName(ActingAccount(CallOps[3]))
  /\ ActingAccount(CallOps[3]) # ActingAccount(CallOps[2])
  /\ call.result = Undefined

\* C2: a transaction whose operations (one or more) all act as the same
\* account U yields U.
C2_AgreementYieldsAccount ==
  (IsUsernameCall /\ call.tx.hasOperations /\ Len(CallOps) >= 1
     /\ IsAccountName(ActingAccount(CallOps[1]))
     /\ \A n \in 1..Len(CallOps) :
          ActingAccount(CallOps[n]) = ActingAccount(CallOps[1]))
  => call.result = ActingAccount(CallOps[1])

\* three operations of different kinds acting as the same account
C2_Witness ==
  /\ IsUsernameCall
  /\ Len(CallOps) = 3
  /\ CallOps[1].tag # CallOps[2].tag
  /\ CallOps[2].tag # CallOps[3].tag
  /\ \A n \in 1..3 : ActingAccount(CallOps[n]) = "hi"
  /\ call.result = "hi"

\* C3: whenever an account U is returned, every operation of the transaction
\* resolves to U.
C3_ReturnedAccountIsEveryOperations ==
  (IsUsernameCall /\ IsAccountName(call.result))
  => \A n \in 1..Len(CallOps) : ActingAccount(CallOps[n]) = call.result

\* C4: a transaction holding an operation of an unknown kind yields undefined,
\* wherever that operation is.
C4_UnknownKindYieldsUndefined ==
  (IsUsernameCall /\ call.tx.hasOperations
     /\ \E n \in 1..Len(CallOps) : UnknownKind(CallOps[n]))
  => call.result = Undefined

\* C5: a transaction holding an operation without kind tag, without operand
\* or with an operand that is not an object yields undefined.
C5_MalformedYieldsUndefined ==
  (IsUsernameCall /\ call.tx.hasOperations
     /\ \E n \in 1..Len(CallOps) : BadlyFormed(CallOps[n]))
  => call.result = Undefined

\* the badly formed operation follows one that resolved to an account
C5_Witness ==
  /\ IsUsernameCall
  /\ Len(CallOps) >= 2
  /\ IsAccountName(ActingAccount(CallOps[1]))
  /\ BadlyFormed(CallOps[2])
  /\ call.result = Undefined

\* C6: a transaction whose operation list is empty or absent yields undefined.
C6_EmptyYieldsUndefined ==
  (IsUsernameCall /\ (~call.tx.hasOperations \/ Len(CallOps) = 0))
  => call.result = Undefined

\* the call was made on the transaction without an operation list
C6_Witness ==
  /\ IsUsernameCall
  /\ ~call.tx.hasOperations
  /\ call.result = Undefined

\* the initiator's keys for the key class, as a set
InitiatorKeys(L, initiator, keyType) ==
  LET pk == getPublicKeys(L, initiator, keyType)
  IN {pk.keys[n] : n \in 1..Len(pk.keys)}

\* some key of the initiator is a potential signer of the transaction's
\* broadcaster with a weight above zero
HasAuthority(L, initiator, keyType, tx) ==
  LET broadcaster == getUsernameFromTransaction(tx) IN
  /\ IsAccountName(broadcaster)
  /\ LET signers == getPotentialSigners(L, broadcaster, keyType)
     IN \E n \in 1..Len(signers) :
          /\ signers[n][1] \in InitiatorKeys(L, initiator, keyType)
          /\ signers[n][2] > 0

\* C7: validateInitiatorOverBroadcaster succeeds exactly when one of the
\* initiator's keys is a potential signer of the broadcaster with weight > 0.
C7_ValidatesIffWeightedKey ==
  IsValidateCall
  => (call.result = "true"
        <=> HasAuthority(call.ledger, call.initiator, call.keyType, call.tx))

\* the initiator validated through a delegated account principal
C7_Witness ==
  /\ IsValidateCall
  /\ call.result = "true"
  /\ call.initiator = "ha"
  /\ getUsernameFromTransaction(call.tx) = "hi"
  /\ call.ledger["hi"].posting.account_auths # <<>>

\* C8: validateInitiatorOverBroadcaster returns false when the broadcaster
\* cannot be extracted from the transaction.
C8_NoBroadcasterReturnsFalse ==
  (IsValidateCall /\ ~IsAccountName(getUsernameFromTransaction(call.tx)))
  => call.result = "false"

\* C9: a transaction enters the result of utils.decodeTransaction only in a
\* step whose validation of the request's initiator, on the ledger as read in
\* that step, succeeded; the promise resolves with exactly those transactions.
C9_AcceptedOnlyAfterValidation ==
  [][ /\ (Len(transactions') > Len(transactions)
            => /\ transactions' = Append(transactions, transactions'[Len(transactions')])
               /\ HasAuthority(ledger, CurrentRequest.initiator,
                               CurrentRequest.keyType,
                               transactions'[Len(transactions')].transaction)
               /\ transactions'[Len(transactions')].signatureRequestId
                    = CurrentRequest.id)
      /\ (outcome'.status = "resolved" => outcome'.value = transactions')
    ]_vars

\* the call resolved with a transaction after the ledger changed under it:
\* the keys read at the head of the last request are no longer the ledger's
C9_Witness ==
  /\ pc = "done"
  /\ outcome.status = "resolved"
  /\ Len(outcome.value) >= 1
  /\ signerPublicKeys #
       getPublicKeys(ledger, data.username,
                     data.signatureRequest[Len(data.signatureRequest)].keyType)

\* reasons passed to reject() for one entry
EntryFailureReasons ==
  {"An error occured during decodeTransaction: ", "Decoding failed.",
   "Invalid initiator."}

\* C10: a failed entry is soft: a call that accepted some entry completes with
\* the accepted transactions and is not failed by an entry's failure.
C10_EntryFailureIsSoft ==
  (pc = "done" /\ Len(transactions) > 0
     /\ ~(outcome.status = "rejected" /\ outcome.reason \notin EntryFailureReasons))
  => (outcome.status = "resolved" /\ outcome.value = transactions)

\* C11: utils.decodeTransaction fails exactly when no transaction was accepted
\* once all requests and entries were processed, and otherwise resolves with
\* exactly the accepted transactions.
C11_FailsIffNothingAccepted ==
  pc = "done"
  => IF Len(transactions) = 0
       THEN outcome.status = "rejected"
       ELSE outcome.status = "resolved" /\ outcome.value = transactions

\* the transaction an entry's ciphertext holds, when it holds one
EntryHoldsTx(signer) == signer.encryptedTransaction.plain.json.valid
EntryTx(signer) == signer.encryptedTransaction.plain.json.value

\* the initiator of the request has no authority, on ledger L, over the
\* broadcaster of the transaction the entry holds
Unauthorized(L, signRequest, signer) ==
  ~(EntryHoldsTx(signer)
      /\ HasAuthority(L, signRequest.initiator, signRequest.keyType,
                      EntryTx(signer)))

\* C12: an entry of a request whose initiator has no authority over the
\* broadcaster of the encrypted transaction is rejected and adds nothing to
\* the result; a call that accepted nothing ends failed, so a batch made of
\* that one request fails.
C12_UnauthorizedContributesNothing ==
  [][ /\ (pc = "signer" /\ i' = i + 1
            /\ Includes(signerPublicKeys, CurrentSigner.publicKey)
            /\ Unauthorized(ledger, CurrentRequest, CurrentSigner))
         => (transactions' = transactions /\ outcome'.status = "rejected")
      /\ (pc' = "done" /\ Len(data.signatureRequest) = 1
            /\ Len(transactions') = 0)
         => outcome'.status = "rejected"
    ]_vars

\* a batch of one request ended failed with "Invalid initiator.": the entry
\* was decrypted and parsed, and held a transaction of a broadcaster the
\* initiator has no authority over
C12_Witness ==
  /\ pc = "done"
  /\ Len(data.signatureRequest) = 1
  /\ Len(transactions) = 0
  /\ outcome.status = "rejected"
  /\ outcome.reason = "Invalid initiator."
  /\ \E n \in 1..Len(data.signatureRequest[1].signers) :
       Unauthorized(ledger, data.signatureRequest[1],
                    data.signatureRequest[1].signers[n])

\* C13: no entry of a request whose initiator is the decoding party appears
\* among the accepted transactions.
C13_NoSelfDecoding ==
  \A n \in 1..Len(transactions) :
    \A r \in 1..Len(data.signatureRequest) :
      data.signatureRequest[r].id = transactions[n].signatureRequestId
      => data.signatureRequest[r].initiator # data.username

\* the returned signer entries of a resolved encodeTransaction
EncodeResolved == encode.outcome.status = "resolved"
EncodeRejected ==
  encode.outcome.status = "rejected" /\ encode.outcome.value = <<>>
ReturnedSigners == encode.outcome.value.signatureRequest.signers

\* keychain.encodeWithKeys was asked by the call
EncryptionRequested ==
  \E n \in 1..Len(keychainCalls) : keychainCalls[n].name = "encodeWithKeys"

\* C14: every call of utils.encodeTransaction settles: when the function has
\* run to its end the caller has a RequestSignatureMessage or a failure.
C14_EncodeSettles ==
  encode.pc = "done" => (EncodeResolved \/ EncodeRejected)

\* keychain.signTx threw or answered success:false
SigningFailed ==
  encode.pc \notin {"idle", "signTx"} /\ ~encode.signature.success

\* C15: when the signing provider fails, utils.encodeTransaction fails,
\* returns no signature request and never asks the provider to encrypt.
C15_SigningFailureIsFatal ==
  SigningFailed => (EncodeRejected /\ ~EncryptionRequested)

\* signTx answered success:false for a transaction whose broadcaster has
\* signers other than the initiator: encryption was the next thing to do
C15_Witness ==
  /\ encode.pc = "done"
  /\ encode.signature # NoAnswer
  /\ ~encode.signature.success
  /\ Truthy(Broadcaster(encode))
  /\ Len(FilterInitiator(getPotentialSigners(ledger, Broadcaster(encode),
                                              encode.data.method),
                          encode.data.initiator.publicKey)) > 0
  /\ EncodeRejected
  /\ ~EncryptionRequested

\* C16: when the broadcaster cannot be extracted from the transaction,
\* utils.encodeTransaction fails, with the broadcaster failure once the
\* signature was obtained, asks for no encryption and returns no request.
C16_NoBroadcasterFails ==
  (encode.pc = "done" /\ ~Truthy(Broadcaster(encode)))
  => /\ EncodeRejected
     /\ ~EncryptionRequested
     /\ (encode.signature.success
           => encode.outcome.reason = "Failed to get broadcaster from transaction")

\* the initiator's signature was obtained for a transaction whose operations
\* act as two accounts
C16_Witness ==
  /\ encode.pc = "done"
  /\ encode.signature.success
  /\ encode.data.transaction = TxSplit
  /\ encode.outcome.reason = "Failed to get broadcaster from transaction"

\* C17: no signer entry of a signature request produced by
\* utils.encodeTransaction carries the initiator's public key.
C17_InitiatorNotAmongSigners ==
  EncodeResolved
  => \A n \in 1..Len(ReturnedSigners) :
       ReturnedSigners[n].publicKey # encode.data.initiator.publicKey

\* a request was produced for a broadcaster the initiator's key is a
\* potential signer of
C17_Witness ==
  /\ EncodeResolved
  /\ Len(ReturnedSigners) > 0
  /\ \E n \in 1..Len(getPotentialSigners(ledger, Broadcaster(encode),
                                         encode.data.method)) :
       getPotentialSigners(ledger, Broadcaster(encode),
                           encode.data.method)[n][1]
         = encode.data.initiator.publicKey
  /\ encode.outcome.value.initialSigner.publicKey
       = encode.data.initiator.publicKey

\* keychain.encodeWithKeys was asked and threw or answered success:false
EncryptionFailed ==
  encode.pc = "done" /\ EncryptionRequested /\ ~encode.encodedTransaction.success

\* C18: a failure of the encryption provider aborts the whole request: the
\* call fails and no signature request is returned.
C18_EncryptionFailureAborts ==
  EncryptionFailed => EncodeRejected

\* the provider answered success:false together with ciphertexts
C18_Witness ==
  /\ EncryptionFailed
  /\ encode.encodedTransaction # NoAnswer
  /\ encode.encodedTransaction.result.present
  /\ Len(encode.encodedTransaction.result.map) > 0
  /\ encode.outcome.reason = "Failed to encode transaction"

\* C19: every returned signer entry carries the ciphertext the provider
\* produced for the entry's own public key, whatever the order of the
\* provider's answer, and no entry is returned without a ciphertext.
C19_EntryCarriesItsCiphertext ==
  EncodeResolved
  => \A n \in 1..Len(ReturnedSigners) :
       /\ ReturnedSigners[n].encryptedTransaction
            = Lookup(encode.encodedTransaction.result.map,
                     ReturnedSigners[n].publicKey)
       /\ ReturnedSigners[n].encryptedTransaction # NoCiphertext

\* C20: a request does not leave AwaitingSignatures for ReadyToBroadcast
\* while the signed weight with the initiator's is below the threshold (it
\* leaves it only refused or expired); the signature that first brings the
\* weight to the threshold turns it ReadyToBroadcast in exactly one
\* transition, and no later signature on the request triggers it again.
C20_ThresholdEdge ==
  [][ /\ (request.state = "AwaitingSignatures"
            /\ SignedWeight(request') < request.threshold)
         => (request'.state \in {"AwaitingSignatures", "Expired", "Refused"}
               /\ readyTransitions' = readyTransitions)
      /\ (request.state = "AwaitingSignatures"
            /\ SignedWeight(request') >= request.threshold)
         => (request'.state = "ReadyToBroadcast"
               /\ readyTransitions' = readyTransitions + 1)
      /\ (request.state = "ReadyToBroadcast"
            => readyTransitions' = readyTransitions)
      /\ readyTransitions' <= 1
    ]_vars

\* the request turned ready once, above its threshold of 3 that the
\* initiator alone did not reach, and every signature it holds could be
\* left out: the last one arrived on a request that was ready already
C20_Witness ==
  /\ request.state = "ReadyToBroadcast"
  /\ readyTransitions = 1
  /\ request.threshold = 3
  /\ request.initiatorWeight < request.threshold
  /\ \E n \in 1..Len(request.signers) :
       request.signers[n].signature # NoSignature
  /\ \A n \in 1..Len(request.signers) :
       request.signers[n].signature # NoSignature
       => SignedWeight(request) - request.signers[n].weight >= request.threshold

\* C21: a signature delivered again to the entry that holds it leaves the
\* signed weight as it is and changes the request no more than touching it
\* does: the weight and the lifecycle state are as after one delivery.
C21_DuplicateSignatureIsIdempotent ==
  [][ duplicates' = duplicates + 1
      => (SignedWeight(request') = SignedWeight(request)
            /\ request' = Expire(request, now)
            /\ readyTransitions' = readyTransitions)
    ]_vars

\* a signature was delivered twice to a request that still awaits signatures
C21_Witness ==
  /\ duplicates = 1
  /\ request.state = "AwaitingSignatures"
  /\ SignedWeight(request) > request.initiatorWeight
  /\ SignedWeight(request) < request.threshold

\* C22: no signer entry holds a signature and refused at once, and an entry
\* that signed or refused never changes to the other outcome.
C22_SignedOrRefusedOnce ==
  [][ \A n \in 1..Len(request'.signers) :
        /\ ~(request'.signers[n].signature # NoSignature
               /\ request'.signers[n].refused)
        /\ (n <= Len(request.signers)
              => /\ (request.signers[n].signature # NoSignature
                       => request'.signers[n].signature
                            = request.signers[n].signature)
                 /\ (request.signers[n].refused => request'.signers[n].refused))
    ]_vars

\* one entry refused and another then signed up to the threshold, and the
\* signature of the entry that refused is among the emitted messages
C22_Witness ==
  /\ \E n \in 1..Len(request.signers) :
       request.signers[n].signature # NoSignature
  /\ \E n \in 1..Len(request.signers) :
       /\ request.signers[n].refused
       /\ \E m \in sent : m.signerId = request.signers[n].id
  /\ request.state = "ReadyToBroadcast"

\* C23: NOTIFY_TRANSACTION_BROADCASTED is emitted only in the step in which
\* the ledger broadcast succeeded; when the ledger broadcast fails nothing is
\* emitted, the call fails and the request does not become Broadcasted.
C23_NotifyOnlyAfterBroadcast ==
  [][ /\ (notified' # notified
            => (broadcast.pc = "broadcastTx" /\ broadcast'.confirmed))
      /\ (request'.state = "Broadcasted" => broadcast'.confirmed)
      /\ (broadcast'.pc = "done" /\ ~broadcast'.confirmed)
         => /\ notified' = {}
            /\ broadcast'.outcome.status = "rejected"
            /\ request'.state # "Broadcasted"
    ]_vars

\* the ledger refused the broadcast of a request that was ready
C23_Witness ==
  /\ broadcast.pc = "done"
  /\ ~broadcast.confirmed
  /\ broadcast.outcome.status = "rejected"
  /\ request.state = "ReadyToBroadcast"
  /\ notified = {}

\* C24: Broadcasted, Expired and Refused are absorbing, and Expired is
\* entered only from Created or AwaitingSignatures, in a step that touches
\* the request after expirationDate has passed.
C24_TerminalStatesAbsorb ==
  [][ /\ (Terminal(request.state) => request'.state = request.state)
      /\ (request'.state = "Expired" /\ request.state # "Expired")
         => /\ request.state \in {"Created", "AwaitingSignatures"}
            /\ now > request.expirationDate
            /\ now' = now
    ]_vars

\* a request is Broadcasted while its expiration date is behind and a
\* signature emitted for one of its entries has not been attached
C24_Witness ==
  /\ request.state = "Broadcasted"
  /\ broadcast.pc = "done"
  /\ now > request.expirationDate
  /\ \E m \in sent : ~AlreadyAttached(request, m)

\* the threshold can still be reached: the initiator's weight and the
\* weight of the entries that did not refuse amount to it
RECURSIVE NotRefusedWeightFrom(_, _)
NotRefusedWeightFrom(signers, n) ==
  IF n > Len(signers) THEN 0
  ELSE (IF signers[n].refused THEN 0 ELSE signers[n].weight)
         + NotRefusedWeightFrom(signers, n + 1)
CanReachThreshold(req) ==
  req.initiatorWeight + NotRefusedWeightFrom(req.signers, 1) >= req.threshold

\* the step sets refused on an entry
RefusalStep ==
  \E n \in 1..Len(request.signers) :
     ~request.signers[n].refused /\ request'.signers[n].refused

\* C25: a request becomes Refused only by a refusal, and a refusal on a
\* request awaiting signatures makes it Refused exactly when the threshold
\* cannot be reached any more; a request that can reach it is not Refused.
C25_RefusedIffUnreachable ==
  [][ /\ (RefusalStep /\ request.state = "AwaitingSignatures")
         => (request'.state = "Refused" <=> ~CanReachThreshold(request'))
      /\ (RefusalStep /\ request.state = "AwaitingSignatures"
            /\ CanReachThreshold(request'))
         => request'.state = "AwaitingSignatures"
      /\ (request'.state = "Refused" /\ request.state # "Refused")
         => RefusalStep
      /\ (CanReachThreshold(request') => request'.state # "Refused")
    ]_vars

\* a refusal left the threshold out of reach although an entry had signed
C25_Witness ==
  /\ request.state = "Refused"
  /\ SignedWeight(request) > request.initiatorWeight
  /\ \E n \in 1..Len(request.signers) : request.signers[n].refused

IsPotentialSignersCall == call.name = "getPotentialSigners"

\* the authority of an account for a key class that has one
ClassAuthority(L, account, keyClass) ==
  IF keyClass = "active" THEN L[account].active ELSE L[account].posting

\* the keys an account principal stands for: the key principals of its own
\* authority of the key class, none when the ledger has no such account
OwnKeys(L, account, keyClass) ==
  IF AccountExists(L, account)
    THEN ClassAuthority(L, account, keyClass).key_auths
    ELSE <<>>

\* the number of entries the account principals before the j-th stand for
RECURSIVE Offset(_, _, _, _)
Offset(L, auths, j, keyClass) ==
  IF j = 1 THEN 0
  ELSE Offset(L, auths, j - 1, keyClass)
         + Len(OwnKeys(L, auths[j - 1][1], keyClass))

\* C26: for the key classes active and posting, getPotentialSigners returns,
\* in the authority's declaration order, for each account principal the key
\* principals of that account's own authority of the same class with the
\* account principal's weight, then each key principal with its own weight,
\* and nothing else (no key found only through a delegate's delegations).
C26_PotentialSignersOneLevel ==
  (IsPotentialSignersCall /\ call.method \in {"active", "posting"})
  => IF ~AccountExists(call.ledger, call.username) THEN call.result = <<>>
     ELSE LET L == call.ledger
              m == call.method
              auth == ClassAuthority(L, call.username, m)
              accs == auth.account_auths
              direct == Offset(L, accs, Len(accs) + 1, m)
          IN /\ Len(call.result) = direct + Len(auth.key_auths)
             /\ \A j \in 1..Len(accs) :
                  \A n \in 1..Len(OwnKeys(L, accs[j][1], m)) :
                     call.result[Offset(L, accs, j, m) + n]
                       = <<OwnKeys(L, accs[j][1], m)[n][1], accs[j][2]>>
             /\ \A n \in 1..Len(auth.key_auths) :
                  call.result[direct + n] = auth.key_auths[n]

\* the account's delegate delegates to a third account whose key is not
\* among the signers returned
C26_Witness ==
  /\ IsPotentialSignersCall
  /\ call.method = "active"
  /\ AccountExists(call.ledger, call.username)
  /\ LET accs == call.ledger[call.username].active.account_auths
     IN /\ accs # <<>>
        /\ AccountExists(call.ledger, accs[1][1])
        /\ LET inner == call.ledger[accs[1][1]].active.account_auths
           IN /\ inner # <<>>
              /\ inner[1][1] # call.username
              /\ OwnKeys(call.ledger, inner[1][1], "active") # <<>>
              /\ \A n \in 1..Len(call.result) :
                    call.result[n][1]
                      # OwnKeys(call.ledger, inner[1][1], "active")[1][1]
        /\ Len(call.result) > 1

IsAuthorityWeightCall == call.name = "getAuthorityWeightOverUser"

\* the entries of an authority a principal can be: the key principals for a
\* key, the account principals for an account name
PrincipalsLike(auth, principal) ==
  IF StartsWithSTM(principal) THEN auth.key_auths ELSE auth.account_auths

\* C27: for the key classes active and posting, getAuthorityWeightOverUser
\* returns the weight the principal holds in the account's authority of that
\* class, and undefined when the principal is not in that authority, whatever
\* it holds in the authority of the other class.
C27_WeightOfKeyClassOnly ==
  (/\ IsAuthorityWeightCall
   /\ call.keyType \in {"active", "posting"}
   /\ AccountExists(call.ledger, call.username))
  => LET entries == PrincipalsLike(ClassAuthority(call.ledger, call.username,
                                                  call.keyType),
                                   call.authority)
         present == \E n \in 1..Len(entries) : entries[n][1] = call.authority
     IN IF present
          THEN /\ call.result.defined
               /\ \E n \in 1..Len(entries) :
                    /\ entries[n][1] = call.authority
                    /\ call.result.value = entries[n][2]
          ELSE ~call.result.defined

IsSignersCall == call.name = "getSigners"

\* C29: utils.getSigners for an account the ledger does not have rejects; it
\* never resolves with a list, empty or not.
C29_UnknownAccountRejects ==
  (IsSignersCall /\ ~AccountExists(call.ledger, call.username))
  => /\ call.result.status = "rejected"
     /\ call.result.value = <<>>

\* the ledger answered, the account is not there, and the promise rejected
\* with the message naming the account
C29_Witness ==
  /\ IsSignersCall
  /\ ~call.throws
  /\ ~AccountExists(call.ledger, call.username)
  /\ call.result.status = "rejected"
  /\ call.result.reason = call.username \o " not found"

\* utils.decodeTransaction runs on the request utils.encodeTransaction built
DecodesEncoded ==
  /\ encode.pc = "done"
  /\ encode.outcome.status = "resolved"
  /\ pc # "idle"

KeysToEncryptFor ==
  {s[1] : s \in {getPotentialSigners(ledger, Broadcaster(encode),
                                       encode.data.method)[n] :
                   n \in 1..Len(getPotentialSigners(ledger, Broadcaster(encode),
                                                    encode.data.method))}}
    \ {encode.data.initiator.publicKey}

\* C30: during and after one call of utils.encodeTransaction the keychain
\* has been asked for one signature, first, and after it for at most one
\* encryption; the encryption is asked for the transaction of the call and
\* for exactly the keys of the broadcaster's potential signers other than
\* the initiator's key.
C30_OneSignatureOneEncryption ==
  [][ /\ encode'.pc # "idle"
         => /\ Len(keychainCalls') \in {1, 2}
            /\ keychainCalls'[1] = SignTxRequest(encode'.data)
            /\ Len(keychainCalls') = 2
                 => keychainCalls'[2].name = "encodeWithKeys"
      /\ (encode.pc # "idle" /\ keychainCalls' # keychainCalls)
         => /\ encode.pc = "getPotentialSigners"
            /\ keychainCalls' = Append(keychainCalls, keychainCalls'[2])
            /\ KeySet(keychainCalls'[2].publicKeys) = KeysToEncryptFor
            /\ KeysToEncryptFor # {}
            /\ keychainCalls'[2].message = Plain(encode.data.transaction)
      /\ (encode.pc = "getPotentialSigners" /\ encode'.pc = "done")
         => KeysToEncryptFor = {} ]_vars

\* the call resolved after one signature and one encryption, asked for
\* fewer keys than the broadcaster has potential signers
C30_Witness ==
  /\ encode.pc = "done"
  /\ encode.outcome.status = "resolved"
  /\ Len(keychainCalls) = 2
  /\ keychainCalls[1].name = "signTx"
  /\ keychainCalls[2].name = "encodeWithKeys"
  /\ Len(keychainCalls[2].publicKeys)
       < Len(getPotentialSigners(ledger, Broadcaster(encode), encode.data.method))

\* the potential signers of the broadcaster on the ledger as it is read,
\* without the entries of the initiator's key, in their order
RemainingSigners ==
  SelectSeq(getPotentialSigners(ledger, Broadcaster(encode), encode.data.method),
            LAMBDA signer : signer[1] # encode.data.initiator.publicKey)

\* C31: for the key classes active and posting, the request
\* utils.encodeTransaction resolves with has one signer entry per potential
\* signer of the broadcaster other than the initiator's key, in their order
\* and with their weights (written as strings), the weight threshold of the
\* broadcaster's authority of the key class as read from the ledger, and
\* the expiration date and key class of the call.
C31_RequestAssembledFromLedger ==
  [][ /\ (encode.pc = "getThreshold" /\ encode'.pc # encode.pc
            /\ encode.data.method \in {"active", "posting"}
            /\ AccountExists(ledger, Broadcaster(encode)))
         => /\ encode'.threshold.defined
            /\ encode'.threshold.value
                 = (IF encode.data.method = "active"
                      THEN ledger[Broadcaster(encode)].active
                      ELSE ledger[Broadcaster(encode)].posting).weight_threshold
      /\ (encode.pc = "getPotentialSigners" /\ encode'.pc # encode.pc)
         => encode'.potentialSigners = RemainingSigners
      /\ (encode'.outcome.status = "resolved" /\ encode.outcome.status = "pending")
         => LET r == encode'.outcome.value.signatureRequest
            IN /\ Len(r.signers) = Len(encode.potentialSigners)
               /\ \A n \in 1..Len(r.signers) :
                     /\ r.signers[n].publicKey = encode.potentialSigners[n][1]
                     /\ r.signers[n].weight.digits = encode.potentialSigners[n][2]
               /\ r.threshold = encode.threshold
               /\ r.expirationDate = encode.data.expirationDate
               /\ r.keyType = encode.data.method ]_vars

\* a request with a threshold above one and an entry the provider returned
\* no ciphertext for
C31_Witness ==
  /\ EncodeResolved
  /\ encode.outcome.value.signatureRequest.threshold.defined
  /\ encode.outcome.value.signatureRequest.threshold.value > 1
  /\ \E n \in 1..Len(ReturnedSigners) :
        ReturnedSigners[n].encryptedTransaction = NoCiphertext

\* C32: the message utils.encodeTransaction hands to keychain.encodeWithKeys
\* is the transaction keychain.signTx answered with, which carries the
\* initiator's signature.
C32_SignedTransactionIsEncrypted ==
  \A n \in 1..Len(keychainCalls) :
     keychainCalls[n].name = "encodeWithKeys"
     => LET tx == keychainCalls[n].message.json.value
        IN /\ "signatures" \in DOMAIN tx
           /\ tx.signatures = encode.signature.result.signatures
           /\ tx.operations = encode.signature.result.operations

\* the keys the initiator's account holds for the key class of the call, on
\* the ledger as it is read
InitiatorAccountKeys ==
  LET pk == getPublicKeys(ledger, encode.data.initiator.username,
                          encode.data.method)
  IN IF pk.defined THEN KeySet(pk.keys) ELSE {}

\* C33: the signers utils.encodeTransaction keeps for the request hold no
\* key of the initiator's account, when the key the initiator signs with is
\* one of that account's keys.
C33_NoKeyOfInitiatorAmongSigners ==
  [][ (/\ encode.pc = "getPotentialSigners"
       /\ encode'.pc # encode.pc
       /\ encode.data.initiator.publicKey \in InitiatorAccountKeys)
      => \A n \in 1..Len(encode'.potentialSigners) :
            encode'.potentialSigners[n][1] \notin InitiatorAccountKeys ]_vars

\* C34: utils.decodeTransaction resolves the decoding party's keys for the
\* key class of each request from the ledger; it asks keychain.decode only
\* for the current entry and only when the entry's key is one of those
\* keys, pushes a transaction only for such an entry, and when the keys are
\* not resolved it rejects, asks for no decryption of the request's entries
\* and stays rejected.
C34_DecryptsOwnEntriesOnly ==
  [][ /\ (pc = "request" /\ pc' = "signer")
         => /\ signerPublicKeys'
                 = getPublicKeys(ledger, data.username, CurrentRequest.keyType)
            /\ ~signerPublicKeys'.defined => outcome'.status = "rejected"
            /\ decodeCalls' = decodeCalls
      /\ (pc # "idle" /\ decodeCalls' # decodeCalls)
         => /\ pc = "signer"
            /\ decodeCalls'
                 = Append(decodeCalls,
                          [name |-> "decode", username |-> data.username,
                           message |-> CurrentSigner.encryptedTransaction,
                           method |-> CurrentRequest.keyType])
            /\ signerPublicKeys.defined
            /\ \E n \in 1..Len(signerPublicKeys.keys) :
                  signerPublicKeys.keys[n] = CurrentSigner.publicKey
      /\ (pc # "idle" /\ transactions' # transactions)
         => /\ decodeCalls' # decodeCalls
            /\ transactions'[Len(transactions')].signer = CurrentSigner
      /\ (pc # "idle" /\ outcome.status = "rejected") => outcome' = outcome
    ]_vars

\* the call resolved after asking for the decryption of one entry of a
\* request that holds an entry addressed to another key as well
C34_Witness ==
  /\ pc = "done"
  /\ outcome.status = "resolved"
  /\ Len(data.signatureRequest) = 1
  /\ Len(decodeCalls) = 1
  /\ \E n \in 1..Len(data.signatureRequest[1].signers) :
        data.signatureRequest[1].signers[n].encryptedTransaction
          # decodeCalls[1].message

\* the authority lists of a multi-authority custom operation, in the order
\* they are looked at
CandidateOrder(tag) ==
  IF tag = "custom_json"
    THEN <<"required_auths", "required_posting_auths">>
  ELSE IF tag = "custom_binary"
    THEN <<"required_auths", "required_posting_auths",
           "required_active_auths", "required_owner_auths">>
  ELSE <<>>

\* the first account of the first list, from the n-th on, that holds one
RECURSIVE FirstCandidate(_, _)
FirstCandidate(op, n) ==
  LET names == CandidateOrder(op.tag)
      f == op.operand.fields
  IN IF n > Len(names) THEN Undefined
     ELSE IF names[n] \in DOMAIN f /\ Len(f[names[n]]) > 0
               /\ IsAccountName(f[names[n]][1])
       THEN f[names[n]][1]
     ELSE FirstCandidate(op, n + 1)

\* a well-formed custom_json or custom_binary operation
MultiAuthority(op) ==
  ~Malformed(op) /\ op.tag \in {"custom_json", "custom_binary"}

\* a well-formed operation of a kind that names its account in one field
SingleField(op) ==
  /\ ~Malformed(op)
  /\ op.tag \in DOMAIN ActingField
  /\ IsAccountName(Field(op.operand, ActingField[op.tag]))

\* C35: a transaction of one custom_json or custom_binary operation yields
\* the first account of its authority lists taken in the fixed order; with
\* an operation of another kind next to it, in either position, the
\* transaction yields that account when the other operation acts as it and
\* undefined when it acts as another.
C35_FirstCandidateInFixedOrder ==
  (IsUsernameCall /\ call.tx.hasOperations)
  => /\ (Len(CallOps) = 1 /\ MultiAuthority(CallOps[1]))
        => call.result = FirstCandidate(CallOps[1], 1)
     /\ \A a, b \in 1..Len(CallOps) :
          (/\ Len(CallOps) = 2 /\ a # b
           /\ MultiAuthority(CallOps[a])
           /\ IsAccountName(FirstCandidate(CallOps[a], 1))
           /\ SingleField(CallOps[b]))
          => call.result
               = (IF Field(CallOps[b].operand, ActingField[CallOps[b].tag])
                       = FirstCandidate(CallOps[a], 1)
                    THEN FirstCandidate(CallOps[a], 1)
                    ELSE Undefined)

\* a custom_binary naming an account in its active list and another in its
\* owner list agrees with a transfer of the first
C35_Witness ==
  /\ IsUsernameCall
  /\ Len(CallOps) = 2
  /\ CallOps[1] = CustomBinary(<<>>, <<>>, <<"hi">>, <<"ha">>)
  /\ CallOps[2] = Transfer("hi")
  /\ call.result = "hi"

\* the messages of one command among the emitted ones
EmittedOf(messages, command) ==
  SelectSeq(messages, LAMBDA m : m.command = command)

\* the provider did not sign: it threw or answered success:false
ProviderFailed(r) == r.threw \/ ~r.success

\* C36: wss.signTransaction emits SIGN_TRANSACTION at most once, at the
\* answer of the signing provider and only when it succeeded, with the last
\* signature of the signed transaction and the caller's signerId and
\* signatureRequestId; a failed signing rejects the call and emits nothing;
\* after a successful signing the call stays pending until the server
\* acknowledgement resolves it.
C36_EmitsOnceAfterSigning ==
  [][ /\ Len(EmittedOf(emitted', "sign_transaction")) <= 1
      /\ (EmittedOf(emitted', "sign_transaction")
             # EmittedOf(emitted, "sign_transaction"))
         => /\ signCall.pc = "signTx"
            /\ ~ProviderFailed(signCall'.signature)
      /\ (signCall.pc = "signTx" /\ signCall'.pc # "signTx")
         => IF ProviderFailed(signCall'.signature)
              THEN /\ signCall'.outcome.status = "rejected"
                   /\ emitted' = emitted
              ELSE /\ signCall'.outcome.status = "pending"
                   /\ emitted' =
                        Append(emitted,
                          [command |-> "sign_transaction",
                           payload |->
                             [signature |->
                                signCall'.signature.result.signatures[
                                  Len(signCall'.signature.result.signatures)],
                              signerId |-> signCall.data.signerId,
                              signatureRequestId |->
                                signCall.data.signatureRequestId]])
      /\ (signCall.outcome.status = "pending"
            /\ signCall'.outcome.status = "resolved")
         => signCall.pc = "emitted"
      /\ signCall.pc = "emitted" => signCall'.outcome.status # "rejected"
      /\ signCall.outcome.status # "pending"
         => signCall'.outcome = signCall.outcome ]_vars

\* a transaction that carried the initiator's signature was signed, the
\* signer's own signature was emitted and the acknowledgement resolved the call
C36_Witness ==
  /\ signCall.pc = "done"
  /\ signCall.outcome.status = "resolved"
  /\ Len(signCall.signature.result.signatures) = 2
  /\ Len(EmittedOf(emitted, "sign_transaction")) = 1
  /\ EmittedOf(emitted, "sign_transaction")[1].payload.signature
       = Signature("ha", "active")

\* C37: the promise of wss.subscribe never changes once settled; a call
\* resolved by the acknowledgement of SIGNER_CONNECT holds a response without
\* errors, one acknowledged with errors is rejected; when the connect message
\* was not signed beforehand and the signing provider fails, the call is
\* rejected and no SIGNER_CONNECT is emitted.
C37_SubscribeFailsClosed ==
  [][ /\ subscribeCall.outcome.status # "pending"
         => subscribeCall'.outcome = subscribeCall.outcome
      /\ (subscribeCall.pc = "emitted" /\ subscribeCall'.pc = "done")
         => /\ subscribeCall'.outcome.status \in {"resolved", "rejected"}
            /\ subscribeCall'.outcome.status = "resolved"
                 => ~Truthy(subscribeCall'.outcome.value.errors)
            /\ subscribeCall'.outcome.status = "rejected"
                 => Truthy(subscribeCall'.outcome.reason)
      /\ (subscribeCall'.signBufferCalls = 1 /\ subscribeCall'.pc # "signBuffer"
            /\ ProviderFailed(subscribeCall'.signBuffer))
         => /\ subscribeCall'.outcome.status = "rejected"
            /\ EmittedOf(emitted', "signer_connect") = <<>> ]_vars

\* the provider signed, SIGNER_CONNECT was emitted and the acknowledgement
\* carried errors: the call is rejected with them
C37_Witness ==
  /\ subscribeCall.pc = "done"
  /\ subscribeCall.signBufferCalls = 1
  /\ ~ProviderFailed(subscribeCall.signBuffer)
  /\ Len(EmittedOf(emitted, "signer_connect")) = 1
  /\ subscribeCall.outcome.status = "rejected"
  /\ subscribeCall.outcome.reason = "signature invalid"

\* C38: wss.subscribe called with a connect message never asks the signing
\* provider, emits SIGNER_CONNECT exactly once, with the argument as it was
\* passed, and a resolved response holds the argument's message and public
\* key.
C38_SignedMessagePassedThrough ==
  (subscribeCall.pc # "idle" /\ Truthy(subscribeCall.argument.message))
  => /\ subscribeCall.signBufferCalls = 0
     /\ EmittedOf(emitted, "signer_connect")
          = <<[command |-> "signer_connect",
               payload |-> <<subscribeCall.argument>>]>>
     /\ subscribeCall.outcome.status = "resolved"
          => /\ subscribeCall.outcome.value.message
                  = subscribeCall.argument.message
             /\ subscribeCall.outcome.value.publicKey
                  = subscribeCall.argument.publicKey

\* a call with a signed message and no public key resolved
C38_Witness ==
  /\ subscribeCall.pc = "done"
  /\ subscribeCall.argument.message = "signed-before"
  /\ subscribeCall.argument.publicKey = Undefined
  /\ subscribeCall.outcome.status = "resolved"
  /\ subscribeCall.outcome.value.result = "pending"

\* C39: once an instance exists no call of getInstance replaces it or
\* connects another socket; every call returns the instance, whose options
\* are those of the call that created it, and one connection has been made.
C39_OneInstancePerProcess ==
  [][ /\ instance.created
         => instance' = instance /\ connections' = connections
      /\ returned' # returned
         => /\ returned'.result = instance'
            /\ instance'.created
            /\ Len(connections') = 1
            /\ connections'[1] = instance'.options.socketAddress ]_vars

\* a later call passing options and another window got the instance made
\* without options
C39_Witness ==
  /\ returned.called
  /\ returned.options.defined
  /\ returned.result = instance
  /\ instance.options = DefaultOptions
  /\ returned.window # instance.window
  /\ Len(connections) = 1

====
